---- MODULE Spec2Model ----
(***************************************************************************)
(* USPTO monitor: novelty filter, processed-state store, in-flight guard,  *)
(* side-effect pipeline and the sweep / targeted orchestrators.            *)
(*                                                                         *)
(* Three programs of the repository are modelled:                          *)
(*   - the pure date functions (getTodayDateKey, isNewDocument),           *)
(*   - lib/unified-uspto-monitor.js: the sweep of the Vercel deployment,   *)
(*   - Googlecron.js with its AutomationController: the server deployment. *)
(***************************************************************************)
EXTENDS Integers, Sequences, FiniteSets, TLC

(***************************************************************************)
(* Bounds of the model.                                                    *)
(***************************************************************************)
\* Calendar days 0..MaxDay, counted from Epoch.
MaxDay == 3
\* Instants of one UTC day a Date can hold (the time of day of a document).
TicksPerDay == 2

(***************************************************************************)
(* Dates.  A JavaScript Date is an instant; the model counts instants in   *)
(* ticks, TicksPerDay of them to one UTC day.  Day 0 is the 30th of        *)
(* December 2023, so the days of the model cross a month and a year.       *)
(***************************************************************************)
Epoch == <<2023, 12, 30>>

Days == 0..MaxDay
Ticks == 0..((MaxDay + 1) * TicksPerDay - 1)

IsLeap(y) == (y % 4 = 0 /\ y % 100 # 0) \/ y % 400 = 0

DaysInMonth(y, m) ==
  IF m = 2 THEN (IF IsLeap(y) THEN 29 ELSE 28)
  ELSE IF m \in {4, 6, 9, 11} THEN 30 ELSE 31

\* The calendar day after <<y, m, d>>.
NextDay(c) ==
  IF c[3] < DaysInMonth(c[1], c[2]) THEN <<c[1], c[2], c[3] + 1>>
  ELSE IF c[2] < 12 THEN <<c[1], c[2] + 1, 1>>
  ELSE <<c[1] + 1, 1, 1>>

\* The calendar date of day n: what Date.prototype.getUTC{FullYear,Month,Date} give.
RECURSIVE Civil(_)
Civil(n) == IF n = 0 THEN Epoch ELSE NextDay(Civil(n - 1))

\* Strings are sequences of UTF-16 code units: "0" is 48, "-" is 45.
Digit(k) == 48 + k
Pad2(n) == <<Digit(n \div 10), Digit(n % 10)>>
Pad4(n) == <<Digit(n \div 1000), Digit((n \div 100) % 10), Digit((n \div 10) % 10), Digit(n % 10)>>

\* date.toISOString().split('T')[0] of the instant t: "YYYY-MM-DD" of its UTC day.
IsoDate(t) ==
  LET c == Civil(t \div TicksPerDay)
  IN  Pad4(c[1]) \o <<45>> \o Pad2(c[2]) \o <<45>> \o Pad2(c[3])

\* JavaScript's a < b on strings: lexicographic on code units, a proper prefix first.
RECURSIVE StrLess(_, _)
StrLess(a, b) ==
  IF b = <<>> THEN FALSE
  ELSE IF a = <<>> THEN TRUE
  ELSE IF Head(a) # Head(b) THEN Head(a) < Head(b)
  ELSE StrLess(Tail(a), Tail(b))

StrGreater(a, b) == StrLess(b, a)
StrGreaterEq(a, b) == ~StrLess(a, b)

\* A property that is missing from the state object reads as undefined.
Absent == <<>>
\* JavaScript truthiness of a string-or-undefined: undefined and "" are falsy.
Truthy(s) == s # <<>>

\* The date keys of the model's days.
DateKey(d) == IsoDate(d * TicksPerDay)
DateKeys == {DateKey(d) : d \in Days}

\* getTodayDateKey at an instant of day d.
getTodayDateKey(d) == IsoDate(d * TicksPerDay)

isNewDocument_nonstrict(docDate, lastProcessedDate, todayDate) ==
  LET docDateStr == IsoDate(docDate)
  IN  IF Truthy(lastProcessedDate)
      THEN StrGreaterEq(docDateStr, lastProcessedDate)
      ELSE StrGreaterEq(docDateStr, todayDate)

isNewDocument(docDate, lastProcessedDate, todayDate) ==
  LET docDateStr == IsoDate(docDate)
  IN  IF Truthy(lastProcessedDate)
      THEN StrGreater(docDateStr, lastProcessedDate)
      ELSE StrGreaterEq(docDateStr, todayDate)

(***************************************************************************)
(* The matter registry (map.json) and the documents a registry can report. *)
(***************************************************************************)
\* Documents one registry answer can list.
MaxDocs == 2

Registry ==
  << [lawmaticsID |-> "L1", applicationNumber |-> "A1", type |-> "Trademark"],
     [lawmaticsID |-> "L2", applicationNumber |-> "A2", type |-> "Patent"] >>

Apps == {Registry[k].applicationNumber : k \in 1..Len(Registry)}
MatterIds == {Registry[k].lawmaticsID : k \in 1..Len(Registry)}

\* The registries report day-granular dates (MailRoomDate, officialDate): the
\* Date parsed from one is the first instant of its UTC day.
DocInstants == {d * TicksPerDay : d \in Days}

RECURSIVE SeqsUpTo(_, _)
SeqsUpTo(S, n) ==
  IF n = 0 THEN {<<>>}
  ELSE LET shorter == SeqsUpTo(S, n - 1)
       IN  shorter \cup {Append(q, x) : q \in {r \in shorter : Len(r) = n - 1}, x \in S}

\* The dated documents of one registry answer, in the registry's order.
RawLists == SeqsUpTo(DocInstants, MaxDocs)

\* x put into a list sorted by descending date, after the entries that are not older
\* (Array.prototype.sort is stable).
RECURSIVE InsertDesc(_, _)
InsertDesc(x, sorted) ==
  IF sorted = <<>> THEN <<x>>
  ELSE IF Head(sorted) >= x THEN <<Head(sorted)>> \o InsertDesc(x, Tail(sorted))
  ELSE <<x>> \o sorted

\* docs.sort((a, b) => b.date - a.date)
RECURSIVE SortDesc(_)
SortDesc(raw) ==
  IF raw = <<>> THEN <<>>
  ELSE InsertDesc(raw[Len(raw)], SortDesc(SubSeq(raw, 1, Len(raw) - 1)))

\* The positions of a list, as a list.
Positions(s) == [k \in 1..Len(s) |-> k]

(***************************************************************************)
(* State.                                                                  *)
(***************************************************************************)
VARIABLES
  nvIn,      \* the arguments of one isNewDocument call
  nvOut,     \* its result: <<>> before the call, <<result>> after it
  today,     \* the calendar day of the clock
  stateFile, \* state/lastProcessedState.json: application number -> date key
  sweep,     \* the locals of processAllMatters of lib/unified-uspto-monitor.js
  upstream,  \* what the registries list for each application of the server deployment
  currentlyProcessing, \* AutomationController.currentlyProcessing
  isRunning, \* AutomationController.isRunning
  cronJob,   \* AutomationController.cronJob is set
  call,      \* the locals of each invocation running on the server's event loop
  chainRuns, \* history: the side-effect chain of an application's document was
             \* started never, once, or again
  doc,       \* the locals of one processSingleDocument call looked at on its own
  mapFile,   \* map.json: the registry of matters, each with its display status
  settled,   \* history: "saved" once a sweep has run to its end and saved the
             \* state, "resweep" once another sweep has started after that
  reply,     \* the last request to the matters API with its answer
  statusFile, \* automation-status.json: the controller's flags as last saved
  crashed,   \* history: the applications whose pipeline had run to its end in
             \* a sweep that was stopped before it saved the state
  API_KEY,   \* process.env.API_KEY of the deployment of api/monitor.js
  timers,    \* the number of node-cron tasks scheduled and not stopped
  otpStorage \* api/health.js: the one-time password issued to each e-mail address

vars == <<nvIn, nvOut, today, stateFile, sweep, upstream, currentlyProcessing,
          isRunning, cronJob, call, chainRuns, doc, mapFile, settled, reply,
          statusFile, crashed, API_KEY, timers, otpStorage>>
noveltyVars == <<nvIn, nvOut>>
libVars == <<today, stateFile, sweep>>
ctlVars == <<upstream, currentlyProcessing, isRunning, cronJob, call, chainRuns>>
extVars == <<doc, mapFile, settled, reply, statusFile, crashed, API_KEY, timers, otpStorage>>

StateMaps == [Apps -> DateKeys \cup {Absent}]

(***************************************************************************)
(* Idle values of the locals.                                              *)
(***************************************************************************)
\* processAllMatters before its first call and between calls.
IdleSweep ==
  [pc |-> "idle", todayDate |-> Absent, lps |-> [a \in Apps |-> Absent], idx |-> 0,
   allDocs |-> <<>>, fetched |-> "none", batch |-> <<>>, i |-> 0, link |-> "none",
   totalProcessed |-> 0, passed |-> <<>>, prior |-> Absent, prospectData |-> "none",
   ret |-> [processed |-> FALSE, docCount |-> 0, reason |-> "none"], updated |-> 0, totalDocuments |-> 0, result |-> "none"]

\* The invocations the server's event loop can hold at once.
Callers == {"c1", "c2"}

\* An invocation slot with nothing running in it.
IdleCall ==
  [kind |-> "idle", pc |-> "idle", target |-> "none", matters |-> <<>>, idx |-> 0,
   lps |-> [a \in Apps |-> Absent], todayDate |-> Absent, latestDoc |-> <<>>,
   link |-> "none", processedCount |-> 0, results |-> <<>>, result |-> "none",
   prior |-> Absent, ret |-> "none"]

\* JavaScript values: undefined, null and "" are falsy.
Undefined == "undefined"
Null == "null"
Falsy == {Undefined, Null, ""}

\* a || b
JsOr(a, b) == IF a \in Falsy THEN b ELSE a

\* The addresses a request to the OTP endpoints can name; the first is the one
\* isValidEmail accepts.
Emails == {"automations@inspiredideasolutions.com", "other@example.com", Undefined}

\* const otpStorage = {}
NoOtp == [e \in Emails |-> Undefined]

\* automation-status.json does not exist.
NoStatusFile ==
  [exists |-> FALSE, enabled |-> FALSE, running |-> FALSE, currentlyProcessing |-> {}]

\* The server deployment is not part of the run.
CtlOff ==
  /\ upstream = [a \in Apps |-> <<>>]
  /\ currentlyProcessing = {}
  /\ isRunning = FALSE
  /\ cronJob = FALSE
  /\ call = [c \in Callers |-> [IdleCall EXCEPT !.kind = "off"]]
  /\ chainRuns = [a \in Apps |-> "never"]

\* No processSingleDocument call is looked at on its own, the registry file and
\* the history of the sweeps are not part of the run.
ExtOff ==
  /\ doc = [pc |-> "off"]
  /\ mapFile = <<>>
  /\ settled = "no"
  /\ statusFile = NoStatusFile
  /\ crashed = {}
  /\ API_KEY = Undefined
  /\ timers = 0
  /\ otpStorage = NoOtp
  /\ reply = [op |-> "none"]

(***************************************************************************)
(* The novelty filter applied to one input.                                *)
(***************************************************************************)
NoveltyInputs ==
  [docDate : Ticks, lastProcessedDate : DateKeys \cup {Absent}, todayDate : DateKeys]

InitNovelty ==
  /\ nvIn \in NoveltyInputs
  /\ nvOut = <<>>
  /\ today = 0
  /\ stateFile = [a \in Apps |-> Absent]
  /\ sweep = IdleSweep
  /\ CtlOff
  /\ ExtOff

ApplyIsNewDocument ==
  /\ nvOut = <<>>
  /\ nvOut' = <<isNewDocument(nvIn.docDate, nvIn.lastProcessedDate, nvIn.todayDate)>>
  /\ UNCHANGED <<nvIn, libVars, ctlVars>>

NextNovelty == ApplyIsNewDocument /\ UNCHANGED extVars

SpecNovelty == InitNovelty /\ [][NextNovelty]_vars

\* The day a date key names.
DayOfKey(k) == CHOOSE d \in Days : DateKey(d) = k
DayOfTick(t) == t \div TicksPerDay

\* The reference novelty operator of the specification, on calendar days.
RefNovel(in) ==
  IF in.lastProcessedDate # Absent
  THEN DayOfTick(in.docDate) > DayOfKey(in.lastProcessedDate)
  ELSE DayOfTick(in.docDate) >= DayOfKey(in.todayDate)

\* C6: isNewDocument agrees with the reference operator on every input: with a
\* last processed date, novel iff the document's day is strictly later; without
\* one, novel iff the document's day is today or later.
C6_NoveltyMatchesReference ==
  nvOut # <<>> => nvOut[1] = RefNovel(nvIn)

\* C6 witness: an equal-date input with a last processed date was judged not novel.
C6_Witness ==
  /\ nvOut = <<FALSE>>
  /\ nvIn.lastProcessedDate # Absent
  /\ IsoDate(nvIn.docDate) = nvIn.lastProcessedDate
  /\ StrLess(nvIn.lastProcessedDate, nvIn.todayDate)
(***************************************************************************)
(* lib/unified-uspto-monitor.js: processAllMatters, processMatter and      *)
(* processSingleDocument.  One action is the code between two awaits on    *)
(* external I/O; sweep.pc names the await the sweep is suspended at.       *)
(***************************************************************************)
NoRet == [processed |-> FALSE, docCount |-> 0, reason |-> "none"]

\* allDocs.filter(doc => isNewDocument(doc.date, lastProcessedDate, todayDate)),
\* as positions of allDocs.
NewDocs(allDocs, lastProcessedDate, todayDate) ==
  SelectSeq(Positions(allDocs),
            LAMBDA k : isNewDocument(allDocs[k], lastProcessedDate, todayDate))

LatestDateDocs_first(allDocs, newDocs) == <<newDocs[1]>>

LatestDateDocs_all(allDocs, newDocs) == newDocs

\* newDocs.filter(doc => date string of doc = date string of newDocs[0])
LatestDateDocs(allDocs, newDocs) ==
  LET latestDate == IsoDate(allDocs[newDocs[1]])
  IN  SelectSeq(newDocs, LAMBDA k : IsoDate(allDocs[k]) = latestDate)

AfterFetch_raise(sw, docs, answer) ==
  LET app == Registry[sw.idx].applicationNumber
      lastProcessedDate == sw.lps[app]
      newDocs == NewDocs(docs, lastProcessedDate, sw.todayDate)
      latestDateDocs == LatestDateDocs(docs, newDocs)
      got == [sw EXCEPT !.allDocs = docs, !.fetched = answer, !.prior = lastProcessedDate]
  IN  IF answer = "failed"
      THEN [got EXCEPT !.pc = "done", !.result = "failed"]
      ELSE IF docs = <<>>
      THEN [got EXCEPT !.pc = "delay", !.ret = [NoRet EXCEPT !.reason = "no_documents"]]
      ELSE IF newDocs = <<>>
      THEN [got EXCEPT !.pc = "delay", !.ret = [NoRet EXCEPT !.reason = "not_new"]]
      ELSE [got EXCEPT !.pc = "upload", !.batch = latestDateDocs, !.i = 1,
                       !.totalProcessed = 0, !.passed = <<latestDateDocs[1]>>]

\* processMatter from the answer of the registry to its next await or its return.
AfterFetch(sw, docs, answer) ==
  LET app == Registry[sw.idx].applicationNumber
      lastProcessedDate == sw.lps[app]
      newDocs == NewDocs(docs, lastProcessedDate, sw.todayDate)
      latestDateDocs == LatestDateDocs(docs, newDocs)
      got == [sw EXCEPT !.allDocs = docs, !.fetched = answer, !.prior = lastProcessedDate]
  IN  IF docs = <<>>
      THEN [got EXCEPT !.pc = "delay", !.ret = [NoRet EXCEPT !.reason = "no_documents"]]
      ELSE IF newDocs = <<>>
      THEN [got EXCEPT !.pc = "delay", !.ret = [NoRet EXCEPT !.reason = "not_new"]]
      ELSE [got EXCEPT !.pc = "upload", !.batch = latestDateDocs, !.i = 1,
                       !.totalProcessed = 0, !.passed = <<latestDateDocs[1]>>]

MatterDone_eachDoc(sw) ==
  LET app == Registry[sw.idx].applicationNumber
      n == sw.totalProcessed + 1
      adv == [sw EXCEPT !.lps[app] = IsoDate(sw.allDocs[sw.batch[1]])]
  IN  IF sw.i < Len(sw.batch)
      THEN [adv EXCEPT !.pc = "docdelay", !.totalProcessed = n]
      ELSE [adv EXCEPT !.pc = "delay", !.totalProcessed = n,
                       !.ret = [processed |-> n > 0, docCount |-> n, reason |-> "processed"],
                       !.updated = @ + 1, !.totalDocuments = @ + n]

\* processSingleDocument has returned: the rest of the loop body of processMatter,
\* and after the last document of the batch the return into processAllMatters.
MatterDone(sw) ==
  LET app == Registry[sw.idx].applicationNumber
      n == sw.totalProcessed + 1
  IN  IF sw.i < Len(sw.batch)
      THEN [sw EXCEPT !.pc = "docdelay", !.totalProcessed = n]
      ELSE [sw EXCEPT !.pc = "delay", !.totalProcessed = n,
                      !.lps[app] = IsoDate(sw.allDocs[sw.batch[1]]),
                      !.ret = [processed |-> n > 0, docCount |-> n, reason |-> "processed"],
                      !.updated = @ + 1, !.totalDocuments = @ + n]

InitLib ==
  /\ nvIn = [docDate |-> 0, lastProcessedDate |-> Absent, todayDate |-> DateKey(0)]
  /\ nvOut = <<>>
  /\ today \in Days
  /\ stateFile \in StateMaps
  /\ sweep = IdleSweep
  /\ CtlOff
  /\ ExtOff

\* runJob calls processAllMatters: loadMatterMap has answered.
LibStart ==
  /\ sweep.pc \in {"idle", "done"}
  /\ sweep' = [IdleSweep EXCEPT !.pc = "load"]
  /\ UNCHANGED <<noveltyVars, ctlVars, today, stateFile>>

\* loadLastProcessedState has answered; processMatter of the first matter asks
\* the registry for its documents.
LibLoad ==
  /\ sweep.pc = "load"
  /\ sweep' = [sweep EXCEPT !.pc = "fetch", !.lps = stateFile,
                            !.todayDate = getTodayDateKey(today), !.idx = 1]
  /\ UNCHANGED <<noveltyVars, ctlVars, today, stateFile>>

\* fetchAllTrademarkDocs / fetchAllPatentDocs: the answer sorted, or [] on failure.
LibFetch ==
  /\ sweep.pc = "fetch"
  /\ \/ \E raw \in RawLists : sweep' = AfterFetch(sweep, SortDesc(raw), "ok")
     \/ sweep' = AfterFetch(sweep, <<>>, "failed")
  /\ UNCHANGED <<noveltyVars, ctlVars, today, stateFile>>

\* downloadAndUploadToDrive: the Drive link, or the document as it was.
LibUpload ==
  /\ sweep.pc = "upload"
  /\ \E l \in {"drive", "source"} : sweep' = [sweep EXCEPT !.pc = "email", !.link = l]
  /\ UNCHANGED <<noveltyVars, ctlVars, today, stateFile>>

LibEmail_beforeUpload ==
  /\ sweep.pc = "email"
  /\ sweep' = [sweep EXCEPT !.pc = "upload"]
  /\ UNCHANGED <<noveltyVars, ctlVars, today, stateFile>>

\* sendEmailNotification: a rejected sendMail is not caught before processAllMatters.
LibEmail ==
  /\ sweep.pc = "email"
  /\ \/ sweep' = [sweep EXCEPT !.pc = "crm"]
     \/ sweep' = [sweep EXCEPT !.pc = "done", !.result = "failed"]
  /\ UNCHANGED <<noveltyVars, ctlVars, today, stateFile>>

\* updateLawmaticsProspect: success and failure both return.
LibCrm ==
  /\ sweep.pc = "crm"
  /\ sweep' = [sweep EXCEPT !.pc = "prospect"]
  /\ UNCHANGED <<noveltyVars, ctlVars, today, stateFile>>

LibProspect_skipFails ==
  /\ sweep.pc = "prospect"
  /\ \/ sweep' = [sweep EXCEPT !.pc = "form", !.prospectData = "attributes"]
     \/ sweep' = [sweep EXCEPT !.pc = "done", !.prospectData = "null", !.result = "failed"]
  /\ UNCHANGED <<noveltyVars, ctlVars, today, stateFile>>

\* getProspect: the attributes, or null and the form step is skipped.
\* sweep.prospectData keeps the answer until the next document or matter.
LibProspect ==
  /\ sweep.pc = "prospect"
  /\ \/ sweep' = [sweep EXCEPT !.pc = "form", !.prospectData = "attributes"]
     \/ sweep' = MatterDone([sweep EXCEPT !.prospectData = "null"])
  /\ UNCHANGED <<noveltyVars, ctlVars, today, stateFile>>

\* submitFormWithPuppeteer: success and failure both return.
LibForm ==
  /\ sweep.pc = "form"
  /\ sweep' = MatterDone(sweep)
  /\ UNCHANGED <<noveltyVars, ctlVars, today, stateFile>>

\* The delay between two documents of a batch has passed.
LibDocDelay ==
  /\ sweep.pc = "docdelay"
  /\ sweep' = [sweep EXCEPT !.pc = "upload", !.i = @ + 1, !.link = "none",
                            !.prospectData = "none",
                            !.passed = Append(@, sweep.batch[sweep.i + 1])]
  /\ UNCHANGED <<noveltyVars, ctlVars, today, stateFile>>

LibDelay_sameMatter ==
  /\ sweep.pc = "delay"
  /\ sweep' = [sweep EXCEPT !.pc = "fetch", !.allDocs = <<>>, !.fetched = "none",
                            !.batch = <<>>, !.i = 0, !.link = "none",
                            !.totalProcessed = 0, !.passed = <<>>, !.prior = Absent,
                            !.prospectData = "none", !.ret = NoRet]
  /\ UNCHANGED <<noveltyVars, ctlVars, today, stateFile>>

\* The delay after a matter has passed: the next matter, or saveLastProcessedState.
LibDelay ==
  /\ sweep.pc = "delay"
  /\ sweep' =
       IF sweep.idx < Len(Registry)
       THEN [sweep EXCEPT !.pc = "fetch", !.idx = @ + 1, !.allDocs = <<>>,
                          !.fetched = "none", !.batch = <<>>, !.i = 0, !.link = "none",
                          !.totalProcessed = 0, !.passed = <<>>, !.prior = Absent,
                          !.prospectData = "none", !.ret = NoRet]
       ELSE [sweep EXCEPT !.pc = "save", !.prospectData = "none"]
  /\ UNCHANGED <<noveltyVars, ctlVars, today, stateFile>>

\* saveLastProcessedState: the whole mapping written, or the error logged.
LibSave ==
  /\ sweep.pc = "save"
  /\ \/ stateFile' = sweep.lps
     \/ UNCHANGED stateFile
  /\ sweep' = [sweep EXCEPT !.pc = "summary"]
  /\ UNCHANGED <<noveltyVars, ctlVars, today>>

\* sendSummaryEmail: sent, or its rejection caught by processAllMatters.
LibSummary ==
  /\ sweep.pc = "summary"
  /\ \E r \in {"success", "failed"} : sweep' = [sweep EXCEPT !.pc = "done", !.result = r]
  /\ UNCHANGED <<noveltyVars, ctlVars, today, stateFile>>

\* The clock passes midnight UTC.  The sweep reads the clock in LibLoad only, so
\* the midnights of a run are taken between two sweeps.
Midnight ==
  /\ sweep.pc \in {"idle", "done"}
  /\ today < MaxDay
  /\ today' = today + 1
  /\ UNCHANGED <<noveltyVars, ctlVars, stateFile, sweep>>

\* A step of the monitor of lib/ while nothing else is part of the run.
NextLib ==
  \/ LibStart /\ UNCHANGED extVars
  \/ LibLoad /\ UNCHANGED extVars
  \/ LibFetch /\ UNCHANGED extVars
  \/ LibUpload /\ UNCHANGED extVars
  \/ LibEmail /\ UNCHANGED extVars
  \/ LibCrm /\ UNCHANGED extVars
  \/ LibProspect /\ UNCHANGED extVars
  \/ LibForm /\ UNCHANGED extVars
  \/ LibDocDelay /\ UNCHANGED extVars
  \/ LibDelay /\ UNCHANGED extVars
  \/ LibSave /\ UNCHANGED extVars
  \/ LibSummary /\ UNCHANGED extVars
  \/ Midnight /\ UNCHANGED extVars

SpecLib == InitLib /\ [][NextLib]_vars
(***************************************************************************)
(* Googlecron.js and the AutomationController (automation-controller.js).  *)
(* Every invocation (a cron tick, runJob, an HTTP request) runs in a slot  *)
(* of call; one action is the code it runs between two awaits on I/O.      *)
(***************************************************************************)
Sweeps == {"tick", "once", "job"}

\* An identifier no matter of map.json carries.
UnknownId == "LX"

getMattersByIds_all(lawmaticsIds) == Registry

\* getMattersByIds: the matters of map.json whose identifier is among ids.
getMattersByIds(ids) == SelectSeq(Registry, LAMBDA m : m.lawmaticsID \in ids)

\* fetchTrademarkDoc / fetchPatentDoc: the first document of the sorted answer,
\* or null (<<>>) when the answer is empty.
FirstDoc(raw) == IF raw = <<>> THEN <<>> ELSE <<SortDesc(raw)[1]>>

CurrentMatter(cl) == cl.matters[cl.idx]
CurrentApp(cl) == CurrentMatter(cl).applicationNumber

\* The slot after the invocation has returned.
Finished(r) == [IdleCall EXCEPT !.result = r]

\* processMultipleMatters at the head of its loop, about to look at matters[from]:
\* a matter in flight is recorded as rejected and the loop continues without
\* awaiting; the first matter not in flight is added and processMatter called;
\* after the last matter the state is saved.
RECURSIVE SkipBusy(_, _, _)
SkipBusy(matters, k, cp) ==
  IF k > Len(matters) THEN k
  ELSE IF matters[k].lawmaticsID \in cp THEN SkipBusy(matters, k + 1, cp)
  ELSE k

LoopHead(c, cl, from) ==
  LET k == SkipBusy(cl.matters, from, currentlyProcessing)
      rejected == [j \in 1..(k - from) |-> "Already being processed"]
      cl2 == [cl EXCEPT !.idx = k, !.results = @ \o rejected,
                        !.latestDoc = <<>>, !.link = "none", !.ret = "none", !.prior = Absent]
  IN  IF k > Len(cl.matters)
      THEN /\ call' = [call EXCEPT ![c] = [cl2 EXCEPT !.pc = "save"]]
           /\ UNCHANGED currentlyProcessing
      ELSE /\ call' = [call EXCEPT ![c] =
                [cl2 EXCEPT !.pc = "fetch"]]
           /\ currentlyProcessing' = currentlyProcessing \cup {cl.matters[k].lawmaticsID}

SweepReturn_keepsRunning(c, cl) ==
  /\ call' = [call EXCEPT ![c] = Finished("undefined")]
  /\ UNCHANGED <<isRunning, currentlyProcessing>>

\* processAllMatters of Googlecron.js has returned (it returns no value) or has
\* caught an error: back in the caller.
SweepReturn(c, cl) ==
  /\ call' = [call EXCEPT ![c] =
       Finished(CASE cl.kind = "job" -> "undefined"
                  [] cl.kind = "tick" -> "error logged"
                  [] OTHER -> "Cannot read properties of undefined")]
  /\ isRunning' = IF cl.kind = "job" THEN isRunning ELSE FALSE
  /\ UNCHANGED currentlyProcessing

Release_never(c, cl) == UNCHANGED currentlyProcessing

\* finally { this.currentlyProcessing.delete(id) }
Release(c, cl) ==
  currentlyProcessing' = currentlyProcessing \ {CurrentMatter(cl).lawmaticsID}

\* processMatter has ended with outcome "processed", "skipped" or "threw":
\* the caller's code up to its next await or its return.
Resume(c, cl, outcome) ==
  LET n == cl.processedCount + (IF outcome = "processed" THEN 1 ELSE 0)
  IN  CASE cl.kind \in Sweeps ->
             IF outcome = "threw" THEN SweepReturn(c, cl)
             ELSE /\ call' = [call EXCEPT ![c] =
                       [cl EXCEPT !.pc = "delay", !.processedCount = n]]
                  /\ UNCHANGED <<currentlyProcessing, isRunning>>
        [] cl.kind = "single" ->
             IF outcome = "threw"
             THEN /\ call' = [call EXCEPT ![c] = Finished("failed")]
                  /\ Release(c, cl)
                  /\ UNCHANGED isRunning
             ELSE /\ call' = [call EXCEPT ![c] = [cl EXCEPT !.pc = "save"]]
                  /\ UNCHANGED <<currentlyProcessing, isRunning>>
        [] OTHER ->
             /\ call' = [call EXCEPT ![c] =
                  [cl EXCEPT !.pc = "delay", !.processedCount = n,
                             !.results = Append(@, IF outcome = "threw" THEN "error"
                                                   ELSE IF outcome = "processed"
                                                   THEN "New document processed"
                                                   ELSE "No new documents")]]
             /\ Release(c, cl)
             /\ UNCHANGED isRunning

\* processMatter of Googlecron.js after its pipeline: the entry of the matter
\* becomes the date of the document, and processMatter returns processed: true.
PipelineDone(c, cl) ==
  Resume(c, [cl EXCEPT !.lps[CurrentApp(cl)] = IsoDate(cl.latestDoc[1]),
                       !.ret = "processed"], "processed")

\* The day of the one document the registry holds, for the first application;
\* it holds none for the other applications.
DocDay == 1

\* The monitor of lib/ is not part of the run.
SweepOff == [IdleSweep EXCEPT !.pc = "off"]

\* A freshly started server: nothing in flight, the scheduler stopped; the
\* state file holds no entry, or an entry for the first application.
ServerStart ==
  /\ nvIn = [docDate |-> 0, lastProcessedDate |-> Absent, todayDate |-> DateKey(0)]
  /\ nvOut = <<>>
  /\ sweep = SweepOff
  /\ \/ /\ today \in Days
        /\ stateFile = [a \in Apps |-> Absent]
     \/ /\ today = DocDay
        /\ \E k \in DateKeys :
             stateFile = [a \in Apps |-> IF a = Registry[1].applicationNumber THEN k ELSE Absent]
  /\ upstream = [a \in Apps |-> IF a = Registry[1].applicationNumber
                                THEN <<DocDay * TicksPerDay>> ELSE <<>>]
  /\ currentlyProcessing = {}
  /\ isRunning = FALSE
  /\ cronJob = FALSE
  /\ call = [c \in Callers |-> IdleCall]
  /\ chainRuns = [a \in Apps |-> "never"]

InitCtl == ServerStart /\ ExtOff

ctlFrame == <<noveltyVars, sweep, today, upstream>>

\* The server that holds the controller is part of the run.
ServerUp == \A c \in Callers : call[c].kind # "off"

startScheduledAutomation ==
  /\ ServerUp
  /\ ~cronJob
  /\ cronJob' = TRUE
  /\ UNCHANGED <<ctlFrame, stateFile, currentlyProcessing, isRunning, call, chainRuns>>

stopScheduledAutomation ==
  /\ ServerUp
  /\ cronJob
  /\ cronJob' = FALSE
  /\ UNCHANGED <<ctlFrame, stateFile, currentlyProcessing, isRunning, call, chainRuns>>

\* The callback of cron.schedule('*/5 * * * *'): returns at once while isRunning.
CronTick(c) ==
  /\ cronJob /\ call[c].kind = "idle" /\ ~isRunning
  /\ isRunning' = TRUE
  /\ call' = [call EXCEPT ![c] = [IdleCall EXCEPT !.kind = "tick", !.pc = "load",
                                                  !.matters = Registry]]
  /\ UNCHANGED <<ctlFrame, stateFile, currentlyProcessing, cronJob, chainRuns>>

runAutomationOnce(c) ==
  /\ call[c].kind = "idle"
  /\ IF isRunning
     THEN /\ call' = [call EXCEPT ![c] = Finished("Automation is already running")]
          /\ UNCHANGED isRunning
     ELSE /\ isRunning' = TRUE
          /\ call' = [call EXCEPT ![c] = [IdleCall EXCEPT !.kind = "once", !.pc = "load",
                                                          !.matters = Registry]]
  /\ UNCHANGED <<ctlFrame, stateFile, currentlyProcessing, cronJob, chainRuns>>

\* runJob of Googlecron.js (its own daily cron.schedule): processAllMatters.
runJob(c) ==
  /\ call[c].kind = "idle"
  /\ call' = [call EXCEPT ![c] = [IdleCall EXCEPT !.kind = "job", !.pc = "load",
                                                  !.matters = Registry]]
  /\ UNCHANGED <<ctlFrame, stateFile, currentlyProcessing, isRunning, cronJob, chainRuns>>

Guard_open(id) == FALSE

\* if (this.currentlyProcessing.has(lawmaticsId))
Guard(id) == id \in currentlyProcessing

\* processSingleMatter up to its await of loadLastProcessedState, or its return.
processSingleMatter(c, id) ==
  /\ call[c].kind = "idle"
  /\ IF Guard(id)
     THEN /\ call' = [call EXCEPT ![c] = Finished("Matter is already being processed")]
          /\ UNCHANGED currentlyProcessing
     ELSE IF getMattersByIds({id}) = <<>>
     THEN /\ call' = [call EXCEPT ![c] = Finished("Matter not found")]
          /\ currentlyProcessing' = (currentlyProcessing \cup {id}) \ {id}
     ELSE /\ call' = [call EXCEPT ![c] =
               [IdleCall EXCEPT !.kind = "single", !.pc = "load", !.target = id,
                                !.matters = getMattersByIds({id}), !.idx = 1]]
          /\ currentlyProcessing' = currentlyProcessing \cup {id}
  /\ UNCHANGED <<ctlFrame, stateFile, isRunning, cronJob, chainRuns>>

\* processMultipleMatters up to its await of loadLastProcessedState, or its return.
processMultipleMatters(c, ids) ==
  /\ call[c].kind = "idle"
  /\ call' = [call EXCEPT ![c] =
       IF getMattersByIds(ids) = <<>> THEN Finished("No valid matters found")
       ELSE [IdleCall EXCEPT !.kind = "multi", !.pc = "load",
                             !.matters = getMattersByIds(ids)]]
  /\ UNCHANGED <<ctlFrame, stateFile, currentlyProcessing, isRunning, cronJob, chainRuns>>

\* loadLastProcessedState has answered: the whole mapping is the caller's copy.
CtlLoad(c) ==
  /\ call[c].pc = "load"
  /\ LET cl == [call[c] EXCEPT !.lps = stateFile, !.todayDate = getTodayDateKey(today)]
     IN  IF cl.kind = "multi" THEN LoopHead(c, cl, 1)
         ELSE /\ call' = [call EXCEPT ![c] = [cl EXCEPT !.pc = "fetch", !.idx = 1]]
              /\ UNCHANGED currentlyProcessing
  /\ UNCHANGED <<ctlFrame, stateFile, isRunning, cronJob, chainRuns>>
\* History of the side-effect chain of an application: never run, run once, or
\* run again after it had already been run.
Bump(n) == IF n = "never" THEN "once" ELSE "again"

\* processMatter of Googlecron.js from the answer of the registry to its first
\* await in the pipeline, or to its return.
CtlFetch(c) ==
  /\ call[c].pc = "fetch"
  /\ \E ok \in BOOLEAN :
       LET cl == call[c]
           app == CurrentApp(cl)
           latestDoc == IF ok THEN FirstDoc(upstream[app]) ELSE <<>>
           cl2 == [cl EXCEPT !.latestDoc = latestDoc, !.prior = cl.lps[app]]
       IN  IF latestDoc = <<>>
           THEN /\ Resume(c, [cl2 EXCEPT !.ret = "no_documents"], "skipped")
                /\ UNCHANGED chainRuns
           ELSE IF ~isNewDocument(latestDoc[1], cl.lps[app], cl.todayDate)
           THEN /\ Resume(c, [cl2 EXCEPT !.ret = "not_new"], "skipped")
                /\ UNCHANGED chainRuns
           ELSE /\ call' = [call EXCEPT ![c] = [cl2 EXCEPT !.pc = "upload"]]
                /\ chainRuns' = [chainRuns EXCEPT ![app] = Bump(@)]
                /\ UNCHANGED <<currentlyProcessing, isRunning>>
  /\ UNCHANGED <<ctlFrame, stateFile, cronJob>>

\* downloadAndUploadToDrive never raises: the link is the Drive link or, when
\* the download or the upload failed, the link of the registry.
CtlUpload(c) ==
  /\ call[c].pc = "upload"
  /\ call' = [call EXCEPT ![c].pc = "email"]
  /\ UNCHANGED <<ctlFrame, stateFile, currentlyProcessing, isRunning, cronJob, chainRuns>>

\* sendEmailNotification of Googlecron.js catches the failure of SendGrid.
CtlEmail(c) ==
  /\ call[c].pc = "email"
  /\ call' = [call EXCEPT ![c].pc = "crm"]
  /\ UNCHANGED <<ctlFrame, stateFile, currentlyProcessing, isRunning, cronJob, chainRuns>>

\* updateLawmaticsProspect catches its failures.
CtlCrm(c) ==
  /\ call[c].pc = "crm"
  /\ call' = [call EXCEPT ![c].pc = "prospect"]
  /\ UNCHANGED <<ctlFrame, stateFile, currentlyProcessing, isRunning, cronJob, chainRuns>>

\* getProspect answers the prospect, or null on any failure.
CtlProspect(c) ==
  /\ call[c].pc = "prospect"
  /\ \/ /\ call' = [call EXCEPT ![c].pc = "form"]
        /\ UNCHANGED <<currentlyProcessing, isRunning>>
     \/ PipelineDone(c, call[c])
  /\ UNCHANGED <<ctlFrame, stateFile, cronJob, chainRuns>>

\* submitFormWithPuppeteer returns after a submission or a caught failure; when
\* puppeteer.launch failed, browser is null and browser.close() in the finally
\* block raises out of processMatter.
CtlForm(c) ==
  /\ call[c].pc = "form"
  /\ \/ PipelineDone(c, call[c])
     \/ Resume(c, [call[c] EXCEPT !.ret = "threw"], "threw")
  /\ UNCHANGED <<ctlFrame, stateFile, cronJob, chainRuns>>

\* The delay after a matter has elapsed: the next matter, or the save.
CtlDelay(c) ==
  /\ call[c].pc = "delay"
  /\ LET cl == call[c]
     IN  IF cl.kind = "multi" THEN LoopHead(c, cl, cl.idx + 1)
         ELSE /\ call' = [call EXCEPT ![c] =
                   IF cl.idx < Len(cl.matters)
                   THEN [cl EXCEPT !.idx = @ + 1, !.pc = "fetch", !.latestDoc = <<>>,
                                   !.link = "none", !.ret = "none", !.prior = Absent]
                   ELSE [cl EXCEPT !.pc = "save"]]
              /\ UNCHANGED currentlyProcessing
  /\ UNCHANGED <<ctlFrame, stateFile, isRunning, cronJob, chainRuns>>

\* saveLastProcessedState has written the caller's whole mapping (or failed and
\* logged it); then the caller's code up to its next await or its return.
CtlSave(c) ==
  /\ call[c].pc = "save"
  /\ \/ stateFile' = call[c].lps
     \/ UNCHANGED stateFile
  /\ LET cl == call[c]
     IN  CASE cl.kind = "single" ->
                /\ call' = [call EXCEPT ![c] = Finished("success")]
                /\ Release(c, cl)
                /\ UNCHANGED isRunning
           [] cl.processedCount = 0 ->
                /\ call' = [call EXCEPT ![c].pc = "confirm"]
                /\ UNCHANGED <<currentlyProcessing, isRunning>>
           [] cl.kind = "multi" ->
                /\ call' = [call EXCEPT ![c] = Finished("success")]
                /\ UNCHANGED <<currentlyProcessing, isRunning>>
           [] OTHER -> SweepReturn(c, cl)
  /\ UNCHANGED <<ctlFrame, cronJob, chainRuns>>

\* sendConfirmationEmail has returned (it catches its failures).
CtlConfirm(c) ==
  /\ call[c].pc = "confirm"
  /\ IF call[c].kind = "multi"
     THEN /\ call' = [call EXCEPT ![c] = Finished("success")]
          /\ UNCHANGED <<currentlyProcessing, isRunning>>
     ELSE SweepReturn(c, call[c])
  /\ UNCHANGED <<ctlFrame, stateFile, cronJob, chainRuns>>

\* A step of the server while the display statuses are left out of the run.
NextCtl ==
  \/ startScheduledAutomation /\ UNCHANGED extVars
  \/ stopScheduledAutomation /\ UNCHANGED extVars
  \/ \E c \in Callers :
       \/ CronTick(c) /\ UNCHANGED extVars
       \/ runAutomationOnce(c) /\ UNCHANGED extVars
       \/ runJob(c) /\ UNCHANGED extVars
       \/ \E id \in MatterIds \cup {UnknownId} :
            processSingleMatter(c, id) /\ UNCHANGED extVars
       \/ \E ids \in SUBSET (MatterIds \cup {UnknownId}) :
            processMultipleMatters(c, ids) /\ UNCHANGED extVars
       \/ CtlLoad(c) /\ UNCHANGED extVars
       \/ CtlFetch(c) /\ UNCHANGED extVars
       \/ CtlUpload(c) /\ UNCHANGED extVars
       \/ CtlEmail(c) /\ UNCHANGED extVars
       \/ CtlCrm(c) /\ UNCHANGED extVars
       \/ CtlProspect(c) /\ UNCHANGED extVars
       \/ CtlForm(c) /\ UNCHANGED extVars
       \/ CtlDelay(c) /\ UNCHANGED extVars
       \/ CtlSave(c) /\ UNCHANGED extVars
       \/ CtlConfirm(c) /\ UNCHANGED extVars

SpecCtl == InitCtl /\ [][NextCtl]_vars
\* Either deployment: the monitor of lib/ or the server with its controller.
InitBoth == InitLib \/ InitCtl

NextBoth == NextLib \/ NextCtl

SpecBoth == InitBoth /\ [][NextBoth]_vars

(***************************************************************************)
(* Properties of the controller and of Googlecron.js.                      *)
(***************************************************************************)
Pipeline == {"upload", "email", "crm", "prospect", "form"}

\* The caller is inside processMatter.
Active(c) == call[c].pc \in {"fetch"} \cup Pipeline

\* C1: with the upstream documents unchanged, the side-effect chain is never
\* executed a second time for the document of a matter, whatever the
\* interleaving of sweeps, runAutomationOnce, processSingleMatter and
\* processMultipleMatters.
C1_ChainAtMostOnce == \A a \in Apps : chainRuns[a] # "again"

\* C2: at no time are two processMatter invocations active for the same matter,
\* whichever entry points started them.
C2_OneAttemptPerMatter ==
  \A c, d \in Callers :
    (c # d /\ Active(c) /\ Active(d))
      => CurrentMatter(call[c]).lawmaticsID # CurrentMatter(call[d]).lawmaticsID

\* C3: the saved entry of an application number is never replaced by an earlier
\* date and never removed once it has been written.
C3_StoreMonotonic ==
  [][\A a \in Apps :
       Truthy(stateFile[a])
         => Truthy(stateFile'[a]) /\ ~StrLess(stateFile'[a], stateFile[a])]_vars

\* The identifiers the guard holds for the attempts in progress: the target of
\* every processSingleMatter call, and the matter processMultipleMatters is at.
InFlightIds ==
  {call[c].target : c \in {x \in Callers : call[x].kind = "single"}}
    \cup {CurrentMatter(call[c]).lawmaticsID :
            c \in {x \in Callers : call[x].kind = "multi" /\ Active(x)}}

\* C4: processSingleMatter(m) called while m is in currentlyProcessing returns
\* 'Matter is already being processed' at once and touches nothing else, and a
\* call is accepted only for a matter not in flight; processMultipleMatters
\* records 'Already being processed' for every in-flight matter it reaches and
\* goes on to the first matter that is not in flight, or to the save.
C4_GuardRejects ==
  [][\A c \in Callers :
       /\ \A id \in MatterIds \cup {UnknownId} :
            (processSingleMatter(c, id) /\ id \in currentlyProcessing)
              => /\ call'[c] = Finished("Matter is already being processed")
                 /\ \A d \in Callers \ {c} : call'[d] = call[d]
                 /\ UNCHANGED <<currentlyProcessing, stateFile, chainRuns>>
       /\ (call[c].kind = "idle" /\ call'[c].kind = "single")
            => call'[c].target \notin currentlyProcessing
       /\ (call[c].kind = "multi" /\ call[c].pc \in {"load", "delay"}
             /\ call'[c] # call[c])
            => LET cl == call[c]
                   from == IF cl.pc = "load" THEN 1 ELSE cl.idx + 1
                   new == call'[c]
               IN  /\ new.kind = "multi"
                   /\ new.idx >= from
                   /\ \A k \in from..(new.idx - 1) :
                        /\ cl.matters[k].lawmaticsID \in currentlyProcessing
                        /\ new.results[Len(cl.results) + 1 + (k - from)]
                             = "Already being processed"
                   /\ Len(new.results) = Len(cl.results) + (new.idx - from)
                   /\ IF new.idx <= Len(cl.matters)
                      THEN /\ new.pc = "fetch"
                           /\ cl.matters[new.idx].lawmaticsID \notin currentlyProcessing
                      ELSE new.pc = "save"]_vars

\* A request for a matter has been rejected while the attempt of another caller
\* on that matter is still in progress.
C4_Witness ==
  \E c, d \in Callers :
    /\ call[c].kind = "idle"
    /\ call[c].result = "Matter is already being processed"
    /\ call[d].kind \in {"single", "multi"}
    /\ call[d].pc = "form"

SweepApp == Registry[sweep.idx].applicationNumber

DocDateStr(k) == IsoDate(sweep.allDocs[k])

Occurrences(s, x) == Cardinality({j \in DOMAIN s : s[j] = x})

\* processMatter of lib/ has returned into processAllMatters.
Returned == sweep.pc = "delay"

\* A pipeline step has raised out of processMatter of lib/.
Aborted == sweep.pc = "done" /\ sweep.ret.reason = "none" /\ sweep.batch # <<>>

InPipeline == sweep.pc \in Pipeline \cup {"docdelay"}

\* C7 as stated: when processMatter returns for a matter with entry D, every
\* fetched document dated strictly after D has been passed through the
\* pipeline exactly once.
C7_EveryLaterDocumentOnce ==
  (Returned /\ Truthy(sweep.prior))
    => \A k \in DOMAIN sweep.allDocs :
         StrGreater(DocDateStr(k), sweep.prior) => Occurrences(sweep.passed, k) = 1

\* C7: for a matter with entry D, only documents that carry the latest fetched
\* date, that date being strictly after D, are passed through the pipeline, each
\* at most once; when processMatter returns, exactly those documents have been
\* passed once, and a document dated after D but before the latest date has
\* not been passed at all.
C7_LatestDateBatchOnce ==
  Truthy(sweep.prior)
    => /\ \A k \in DOMAIN sweep.allDocs :
            /\ Occurrences(sweep.passed, k) <= 1
            /\ Occurrences(sweep.passed, k) = 1
                 => /\ DocDateStr(k) = DocDateStr(1)
                    /\ StrGreater(DocDateStr(k), sweep.prior)
       /\ Returned
            => \A k \in DOMAIN sweep.allDocs :
                 Occurrences(sweep.passed, k) = 1
                   <=> /\ DocDateStr(k) = DocDateStr(1)
                       /\ StrGreater(DocDateStr(1), sweep.prior)

\* processMatter has returned after its batch, and a fetched document dated
\* after the entry was left out.
C7_Witness ==
  /\ Returned
  /\ Truthy(sweep.prior)
  /\ sweep.ret.reason = "processed"
  /\ \E k \in DOMAIN sweep.allDocs :
       /\ StrGreater(DocDateStr(k), sweep.prior)
       /\ Occurrences(sweep.passed, k) = 0

\* C8: for a matter with entry D, processMatter (of lib/ and of Googlecron.js)
\* never passes a document dated on or before D to the pipeline, and when every
\* fetched document is dated on or before D it runs no pipeline step and leaves
\* the entry equal to D.
C8_NothingOnOrBeforeEntry ==
  /\ Truthy(sweep.prior)
       => /\ \A j \in DOMAIN sweep.passed :
               StrGreater(DocDateStr(sweep.passed[j]), sweep.prior)
          /\ (\A k \in DOMAIN sweep.allDocs : ~StrGreater(DocDateStr(k), sweep.prior))
               => /\ sweep.passed = <<>>
                  /\ ~InPipeline
                  /\ sweep.lps[SweepApp] = sweep.prior
  /\ \A c \in Callers :
       Truthy(call[c].prior)
         => LET cl == call[c]
                docs == upstream[CurrentApp(cl)]
            IN  /\ (cl.pc \in Pipeline \/ cl.ret = "processed")
                     => /\ cl.latestDoc # <<>>
                        /\ StrGreater(IsoDate(cl.latestDoc[1]), cl.prior)
                /\ (\A k \in DOMAIN docs : ~StrGreater(IsoDate(docs[k]), cl.prior))
                     => /\ cl.pc \notin Pipeline
                        /\ cl.ret \in {"no_documents", "not_new"}
                        /\ cl.lps[CurrentApp(cl)] = cl.prior

\* processMatter has returned 'not_new' for a matter whose entry is present and
\* whose registry holds documents.
C8_Witness ==
  /\ Returned
  /\ Truthy(sweep.prior)
  /\ sweep.allDocs # <<>>
  /\ sweep.ret.reason = "not_new"
  /\ sweep.lps[SweepApp] = sweep.prior

\* C9 as stated: when processMatter returns for a matter without entry, no
\* document dated before today has been processed, every fetched document
\* dated today or later has been processed, and the entry is the date of the
\* processed document.
C9_EveryCurrentDocumentProcessed ==
  /\ (Returned /\ ~Truthy(sweep.prior))
       => /\ \A j \in DOMAIN sweep.passed :
               StrGreaterEq(DocDateStr(sweep.passed[j]), sweep.todayDate)
          /\ \A k \in DOMAIN sweep.allDocs :
               StrGreaterEq(DocDateStr(k), sweep.todayDate)
                 => /\ Occurrences(sweep.passed, k) = 1
                    /\ sweep.lps[SweepApp] = DocDateStr(k)
  /\ \A c \in Callers :
       (call[c].ret \in {"processed", "no_documents", "not_new"} /\ ~Truthy(call[c].prior))
         => LET cl == call[c]
                docs == upstream[CurrentApp(cl)]
            IN  \A k \in DOMAIN docs :
                  StrGreaterEq(IsoDate(docs[k]), cl.todayDate)
                    => (cl.latestDoc # <<>>
                          => cl.ret = "processed" /\ cl.lps[CurrentApp(cl)] = IsoDate(docs[k]))

\* C9: for a matter without entry, only documents that carry the latest fetched
\* date, that date being today or later, are passed through the pipeline; when
\* processMatter returns and the latest fetched date is today or later, it
\* reports processed, every document of that date (the one latest document in
\* Googlecron.js) has been passed once and the entry is that date; when the
\* latest fetched date is before today nothing is passed and the entry stays
\* absent; when a pipeline step raises the entry stays absent.
C9_LatestCurrentDateProcessed ==
  /\ (sweep.fetched # "none" /\ ~Truthy(sweep.prior))
       => /\ \A j \in DOMAIN sweep.passed :
               /\ DocDateStr(sweep.passed[j]) = DocDateStr(1)
               /\ StrGreaterEq(DocDateStr(1), sweep.todayDate)
          /\ Returned
               => IF sweep.allDocs # <<>> /\ StrGreaterEq(DocDateStr(1), sweep.todayDate)
                  THEN /\ sweep.ret.processed
                       /\ \A k \in DOMAIN sweep.allDocs :
                            Occurrences(sweep.passed, k) = 1
                              <=> DocDateStr(k) = DocDateStr(1)
                       /\ sweep.lps[SweepApp] = DocDateStr(1)
                  ELSE /\ ~sweep.ret.processed
                       /\ sweep.passed = <<>>
                       /\ sweep.lps[SweepApp] = Absent
          /\ Aborted => sweep.lps[SweepApp] = Absent
  /\ \A c \in Callers :
       ~Truthy(call[c].prior)
         => LET cl == call[c]
            IN  /\ cl.pc \in Pipeline
                     => StrGreaterEq(IsoDate(cl.latestDoc[1]), cl.todayDate)
                /\ cl.ret # "none"
                     => IF cl.latestDoc # <<>>
                           /\ StrGreaterEq(IsoDate(cl.latestDoc[1]), cl.todayDate)
                        THEN /\ cl.ret \in {"processed", "threw"}
                             /\ cl.lps[CurrentApp(cl)] =
                                  IF cl.ret = "processed" THEN IsoDate(cl.latestDoc[1])
                                  ELSE Absent
                        ELSE /\ cl.ret \in {"no_documents", "not_new"}
                             /\ cl.lps[CurrentApp(cl)] = Absent

\* processMatter has returned for a matter without entry, and a fetched
\* document dated today or later was left out.
C9_Witness ==
  /\ Returned
  /\ ~Truthy(sweep.prior)
  /\ sweep.ret.processed
  /\ sweep.lps[SweepApp] = DocDateStr(1)
  /\ \E k \in DOMAIN sweep.allDocs :
       /\ StrGreaterEq(DocDateStr(k), sweep.todayDate)
       /\ Occurrences(sweep.passed, k) = 0

\* C10: when several fetched documents share the latest novel date, the attempt
\* ends with every one of them passed through the pipeline once, docCount equal
\* to their number and the entry advanced to that date; until the last of them
\* has gone through the pipeline the entry is not advanced.
C10_WholeSameDateBatch ==
  Len(sweep.batch) >= 2
    => /\ (Returned \/ Aborted)
            => /\ \A j \in DOMAIN sweep.batch :
                    Occurrences(sweep.passed, sweep.batch[j]) = 1
               /\ sweep.ret.docCount = Len(sweep.batch)
               /\ sweep.lps[SweepApp] = DocDateStr(sweep.batch[1])
       /\ InPipeline => sweep.lps[SweepApp] = sweep.prior
(***************************************************************************)
(* Properties of the orchestrators and of the pipeline steps.              *)
(***************************************************************************)
\* C11: a sweep of lib/ ends only after the last matter of the registry has
\* been attempted, and processMultipleMatters reaches its save only with one
\* result for every targeted matter: an exception raised while one matter is
\* processed keeps no later matter from being attempted.
C11_RemainingMattersAttempted ==
  /\ sweep.pc = "done" => sweep.idx = Len(Registry)
  /\ \A c \in Callers :
       (call[c].kind = "multi" /\ call[c].pc \in {"save", "confirm"})
         => Len(call[c].results) = Len(call[c].matters)
\* C12: a failed registry fetch does not raise: the matter is treated as having
\* no documents (nothing passed, processMatter returns 'no_documents'), the
\* sweep goes on to the next matter with the mapping as it was, or to the save
\* after the last matter; and every fetch that answers novel documents, for
\* whichever matter of the sweep, starts the pipeline.
C12_FetchFaultIsolated ==
  /\ [](sweep.fetched = "failed"
          => /\ sweep.allDocs = <<>>
             /\ sweep.passed = <<>>
             /\ sweep.ret.reason = "no_documents"
             /\ sweep.pc \in {"delay", "save", "summary", "done"})
  /\ [][/\ (sweep.fetched = "failed" /\ sweep.pc = "delay" /\ sweep' # sweep)
             => IF sweep.idx < Len(Registry)
                THEN /\ sweep'.pc = "fetch"
                     /\ sweep'.idx = sweep.idx + 1
                     /\ sweep'.lps = sweep.lps
                     /\ sweep'.todayDate = sweep.todayDate
                ELSE sweep'.pc = "save" /\ sweep'.lps = sweep.lps
          /\ (sweep.pc = "fetch" /\ sweep' # sweep)
             => LET app == Registry[sweep.idx].applicationNumber
                    novel == NewDocs(sweep'.allDocs, sweep.lps[app], sweep.todayDate)
                IN  IF novel # <<>>
                    THEN sweep'.pc = "upload" /\ sweep'.passed = <<novel[1]>>
                    ELSE sweep'.pc = "delay"]_vars

\* The fetch for the first matter has failed, processMatter has returned, and
\* the sweep is about to go on to the next matter.
C12_Witness ==
  /\ sweep.fetched = "failed"
  /\ sweep.pc = "delay"
  /\ sweep.ret.reason = "no_documents"
  /\ sweep.idx < Len(Registry)
\* C15: no step of the pipeline raises out of processSingleDocument of lib/:
\* from every step (the upload, the notification, the CRM update, the prospect
\* fetch, the form) the sweep goes on to a later step of the same document or
\* to the code of processMatter that follows processSingleDocument.
C15_NoStepRaises ==
  [][(sweep.pc \in Pipeline /\ sweep' # sweep)
       => /\ sweep'.pc \in Pipeline \cup {"docdelay", "delay"}
          /\ sweep'.result = "none"]_vars
\* The place of a step in the order of processSingleDocument; 0 outside the pipeline.
StepRank(pc) ==
  CASE pc = "upload" -> 1
    [] pc = "email" -> 2
    [] pc = "crm" -> 3
    [] pc = "prospect" -> 4
    [] pc = "form" -> 5
    [] OTHER -> 0

\* C16: the pipeline of a novel document (of lib/ and of Googlecron.js) starts
\* with the upload; the step that starts when a step has ended is the next one
\* of the order upload, notification, CRM update, prospect fetch, form, and only
\* the form may be left out; a document is passed to the pipeline only from
\* outside the pipeline, after the pipeline of the document before it has ended.
C16_FixedStepOrder ==
  [][/\ sweep'.pc # sweep.pc
          => /\ (sweep'.pc \in Pipeline /\ sweep.pc \notin Pipeline)
                  => sweep'.pc = "upload" /\ sweep.pc \in {"fetch", "docdelay"}
             /\ (sweep'.pc \in Pipeline /\ sweep.pc \in Pipeline)
                  => StepRank(sweep'.pc) = StepRank(sweep.pc) + 1
             /\ (sweep.pc \in Pipeline /\ sweep'.pc \in {"docdelay", "delay"})
                  => sweep.pc \in {"prospect", "form"}
     /\ sweep'.passed # sweep.passed
          => /\ sweep.pc \in {"fetch", "docdelay", "delay", "done", "idle"}
             /\ sweep'.passed # <<>> => sweep'.pc = "upload"
     /\ \A c \in Callers :
          call'[c].pc # call[c].pc
            => /\ (call'[c].pc \in Pipeline /\ call[c].pc \notin Pipeline)
                    => call'[c].pc = "upload" /\ call[c].pc = "fetch"
               /\ (call'[c].pc \in Pipeline /\ call[c].pc \in Pipeline)
                    => StepRank(call'[c].pc) = StepRank(call[c].pc) + 1
               /\ (call[c].pc \in Pipeline /\ call'[c].ret = "processed")
                    => call[c].pc \in {"prospect", "form"}]_vars

\* The second document of a batch is in the last step of its pipeline.
C16_Witness ==
  /\ sweep.pc = "form"
  /\ sweep.i = 2
  /\ Len(sweep.passed) = 2
(***************************************************************************)
(* lib/unified-uspto-monitor.js: one call of processSingleDocument, with   *)
(* the links its steps work with.  doc.pc names the step it is awaiting.   *)
(***************************************************************************)
\* The link of a listed document (fetchAll*Docs: the registry's URL || "N/A"),
\* and the webViewLink of an uploaded file.
SourceUrl == "https://tsdrapi.uspto.gov/doc"
DriveUrl == "https://drive.google.com/file"
SourceLinks == {SourceUrl, "N/A"}

DocUrl_linkFirst(d, none) == JsOr(JsOr(d.link, d.driveLink), none)

\* latestDoc.driveLink || latestDoc.link || none
DocUrl(d, none) == JsOr(JsOr(d.driveLink, d.link), none)

NoRefs == [s \in {"email", "crm", "form"} |-> "none"]

\* processSingleDocument is called with a matter of the registry and one of
\* the documents the registry listed for it.
InitDoc ==
  /\ nvIn = [docDate |-> 0, lastProcessedDate |-> Absent, todayDate |-> DateKey(0)]
  /\ nvOut = <<>>
  /\ today = 0
  /\ stateFile = [a \in Apps |-> Absent]
  /\ sweep = [IdleSweep EXCEPT !.pc = "off"]
  /\ CtlOff
  /\ mapFile = <<>>
  /\ settled = "no"
  /\ statusFile = NoStatusFile
  /\ crashed = {}
  /\ API_KEY = Undefined
  /\ timers = 0
  /\ otpStorage = NoOtp
  /\ reply = [op |-> "none"]
  /\ \E m \in 1..Len(Registry), t \in DocInstants, l \in SourceLinks :
       doc = [pc |-> "upload", matter |-> m,
              document |-> [date |-> t, link |-> l, driveLink |-> Undefined],
              upload |-> "none", processedDoc |-> <<>>, refs |-> NoRefs,
              prospectData |-> "none", result |-> "none"]

\* downloadAndUploadToDrive: the document as it was when it has no link, when
\* the download fails or when uploadToDrive raises; with driveLink null when
\* uploadToDrive skips for lack of a token; with the webViewLink otherwise.
downloadAndUploadToDrive ==
  /\ doc.pc = "upload"
  /\ LET latestDoc == doc.document
     IN  IF latestDoc.link \in Falsy \/ latestDoc.link = "N/A"
         THEN doc' = [doc EXCEPT !.pc = "email", !.upload = "no link",
                                 !.processedDoc = <<latestDoc>>]
         ELSE \/ \E why \in {"download failed", "upload failed"} :
                   doc' = [doc EXCEPT !.pc = "email", !.upload = why,
                                      !.processedDoc = <<latestDoc>>]
              \/ doc' = [doc EXCEPT !.pc = "email", !.upload = "skipped",
                           !.processedDoc = <<[latestDoc EXCEPT !.driveLink = Null]>>]
              \/ doc' = [doc EXCEPT !.pc = "email", !.upload = "uploaded",
                           !.processedDoc = <<[latestDoc EXCEPT !.driveLink = DriveUrl]>>]
  /\ UNCHANGED <<noveltyVars, libVars, ctlVars, mapFile, settled, reply, statusFile, crashed, API_KEY, timers, otpStorage>>

\* sendEmailNotification: the mail with docUrl is handed to the transporter; a
\* rejection raises out of processSingleDocument.
sendEmailNotification ==
  /\ doc.pc = "email"
  /\ LET sent == [doc EXCEPT !.refs["email"] = DocUrl(doc.processedDoc[1], "N/A")]
     IN  \/ doc' = [sent EXCEPT !.pc = "crm"]
         \/ doc' = [sent EXCEPT !.pc = "done", !.result = "raised"]
  /\ UNCHANGED <<noveltyVars, libVars, ctlVars, mapFile, settled, reply, statusFile, crashed, API_KEY, timers, otpStorage>>

\* updateLawmaticsProspect: the note with docUrl; success and failure both return.
updateLawmaticsProspect ==
  /\ doc.pc = "crm"
  /\ doc' = [doc EXCEPT !.pc = "prospect",
                        !.refs["crm"] = DocUrl(doc.processedDoc[1], "N/A")]
  /\ UNCHANGED <<noveltyVars, libVars, ctlVars, mapFile, settled, reply, statusFile, crashed, API_KEY, timers, otpStorage>>

\* getProspect: the attributes, or null; without them the form is skipped and
\* processSingleDocument returns.
getProspect ==
  /\ doc.pc = "prospect"
  /\ \/ doc' = [doc EXCEPT !.pc = "form", !.prospectData = "attributes"]
     \/ doc' = [doc EXCEPT !.pc = "done", !.prospectData = Null, !.result = "processed"]
  /\ UNCHANGED <<noveltyVars, libVars, ctlVars, mapFile, settled, reply, statusFile, crashed, API_KEY, timers, otpStorage>>

\* submitFormWithPuppeteer: the link field is typed with documentLink when the
\* page was reached; every failure is caught.
submitFormWithPuppeteer ==
  /\ doc.pc = "form"
  /\ \/ doc' = [doc EXCEPT !.pc = "done", !.result = "processed",
                           !.refs["form"] = DocUrl(doc.processedDoc[1], "")]
     \/ doc' = [doc EXCEPT !.pc = "done", !.result = "processed"]
  /\ UNCHANGED <<noveltyVars, libVars, ctlVars, mapFile, settled, reply, statusFile, crashed, API_KEY, timers, otpStorage>>

NextDoc ==
  \/ downloadAndUploadToDrive
  \/ sendEmailNotification
  \/ updateLawmaticsProspect
  \/ getProspect
  \/ submitFormWithPuppeteer

SpecDoc == InitDoc /\ [][NextDoc]_vars

\* C17: the upload step never raises and is followed by the notification;
\* when it did not upload (no source link, failed download, failed or skipped
\* upload) the notification, the CRM update and the form reference the link
\* the document was listed with, and when it uploaded they reference the link
\* of the stored file.
C17_LinkAfterUpload ==
  /\ [](\A s \in {"email", "crm", "form"} :
          doc.refs[s] # "none"
            => doc.refs[s] = IF doc.upload = "uploaded" THEN DriveUrl
                             ELSE doc.document.link)
  /\ [][doc.pc = "upload" => doc'.pc = "email" /\ doc'.upload # "none"]_vars

\* The upload was skipped for lack of a token and the form was filled in.
C17_Witness ==
  /\ doc.upload = "skipped"
  /\ doc.refs["form"] = SourceUrl
  /\ doc.refs["email"] = SourceUrl
  /\ doc.refs["crm"] = SourceUrl
\* C18: the form step (of lib/ and of Googlecron.js) is entered from the
\* prospect fetch only, and only when the fetch answered the prospect; when it
\* did not, the form is left out, nothing is reported as failed, the document
\* counts as processed and, the batch being over, processMatter returns
\* processed with the entry advanced to the date of the document.
C18_FormOnlyWithProspect ==
  /\ [](/\ sweep.pc = "form" => sweep.prospectData = "attributes"
        /\ sweep.prospectData = "null"
             => /\ sweep.pc \in {"docdelay", "delay"}
                /\ sweep.result = "none"
                /\ sweep.totalProcessed = sweep.i
                /\ sweep.pc = "delay"
                     => /\ sweep.ret.processed
                        /\ sweep.ret.reason = "processed"
                        /\ sweep.lps[SweepApp] = DocDateStr(sweep.batch[sweep.i]))
  /\ [][/\ (sweep'.pc = "form" /\ sweep.pc # "form") => sweep.pc = "prospect"
        /\ (sweep.pc = "form" /\ sweep' # sweep) => sweep'.prospectData = "attributes"
        /\ \A c \in Callers :
             /\ (call'[c].pc = "form" /\ call[c].pc # "form") => call[c].pc = "prospect"
             /\ (call[c].pc = "prospect" /\ call'[c] # call[c] /\ call'[c].pc # "form")
                  => /\ call'[c].kind = call[c].kind
                     /\ call'[c].ret = "processed"
                     /\ call'[c].result = "none"
                     /\ call'[c].lps[CurrentApp(call[c])] = IsoDate(call[c].latestDoc[1])
                     /\ call[c].kind = "multi"
                          => call'[c].results = Append(call[c].results, "New document processed")]_vars

\* The prospect of the only document of a batch could not be fetched: the form
\* was left out and processMatter has returned processed with the entry advanced.
C18_Witness ==
  /\ sweep.prospectData = "null"
  /\ sweep.pc = "delay"
  /\ sweep.ret.processed
  /\ Truthy(sweep.prior)
  /\ sweep.lps[SweepApp] # sweep.prior
  /\ sweep.lps[SweepApp] = DocDateStr(sweep.batch[1])
\* C14: processMultipleMatters sends the consolidated 'no updates' notification
\* only when no targeted matter had a novel document (every attempt of the
\* batch answered 'No new documents', or the matter was in flight elsewhere and
\* not looked at), and a batch that ends without the notification had a novel
\* document processed.
C14_ConfirmationIffNoNovel ==
  /\ [](\A c \in Callers :
          (call[c].kind = "multi" /\ call[c].pc = "confirm")
            => \A j \in DOMAIN call[c].results :
                 call[c].results[j] \in {"No new documents", "Already being processed"})
  /\ [][\A c \in Callers :
          (call[c].kind = "multi" /\ call[c].pc = "save" /\ call'[c] # call[c]
             /\ call'[c].pc # "confirm")
            => \E j \in DOMAIN call[c].results :
                 call[c].results[j] = "New document processed"]_vars
(***************************************************************************)
(* api/health.js: the matters API over map.json, and the status writes of  *)
(* the controller.  Every handler reads, changes and writes the file with  *)
(* synchronous calls, so each request is one step.                         *)
(***************************************************************************)
\* What a request can carry: an identifier of the registry, another one, or
\* nothing ("" for a missing field).
PostApps == Apps \cup {""}
PostIds == MatterIds \cup {UnknownId, ""}
Types == {"Trademark", "Patent"}

Statuses ==
  {"Pending Automation", "Processing...", "Automation Completed", "No Updates Found",
   "Failed"}

\* map.json as the deployment ships it: the matters of the registry, pending.
ShippedMap == [k \in 1..Len(Registry) |->
  [applicationNumber |-> Registry[k].applicationNumber,
   lawmaticsID |-> Registry[k].lawmaticsID, type |-> Registry[k].type,
   status |-> "Pending Automation"]]

\* mapData.find(item => item.applicationNumber === applicationNumber) and
\* mapData.find(item => item.lawmaticsID === lawmaticsID) found something.
existsByAppNumber(mapData, applicationNumber) ==
  \E k \in DOMAIN mapData : mapData[k].applicationNumber = applicationNumber

existsByLawmaticsID_none(mapData, lawmaticsID) == FALSE

existsByLawmaticsID(mapData, lawmaticsID) ==
  \E k \in DOMAIN mapData : mapData[k].lawmaticsID = lawmaticsID

\* matters[matterIndex].status = status for the first matter with the identifier;
\* the list as it was when there is none.
updateMatterStatus(matters, lawmaticsId, status) ==
  IF existsByLawmaticsID(matters, lawmaticsId)
  THEN LET matterIndex == CHOOSE k \in DOMAIN matters :
                            /\ matters[k].lawmaticsID = lawmaticsId
                            /\ \A j \in 1..(k - 1) : matters[j].lawmaticsID # lawmaticsId
       IN  [matters EXCEPT ![matterIndex].status = status]
  ELSE matters

\* writeMapFile: the file is replaced, or the error is logged and the file kept.
writeMapFile(data) == mapFile' = data \/ UNCHANGED mapFile

regFrame == <<noveltyVars, libVars, ctlVars, doc, settled, statusFile, crashed, API_KEY, timers, otpStorage>>

InitRegistry ==
  /\ nvIn = [docDate |-> 0, lastProcessedDate |-> Absent, todayDate |-> DateKey(0)]
  /\ nvOut = <<>>
  /\ today = 0
  /\ stateFile = [a \in Apps |-> Absent]
  /\ sweep = [IdleSweep EXCEPT !.pc = "off"]
  /\ CtlOff
  /\ doc = [pc |-> "off"]
  /\ settled = "no"
  /\ statusFile = NoStatusFile
  /\ crashed = {}
  /\ API_KEY = Undefined
  /\ timers = 0
  /\ otpStorage = NoOtp
  /\ reply = [op |-> "none"]
  /\ mapFile \in {<<>>, ShippedMap}

\* POST /api/matters
PostMatter ==
  \E applicationNumber \in PostApps, lawmaticsID \in PostIds, type \in Types :
    LET req == [op |-> "POST", applicationNumber |-> applicationNumber,
                lawmaticsID |-> lawmaticsID]
        newMatter == [applicationNumber |-> applicationNumber, lawmaticsID |-> lawmaticsID,
                      type |-> type, status |-> "Pending Automation"]
    IN  /\ IF applicationNumber = "" \/ lawmaticsID = ""
           THEN reply' = req @@ [code |-> 400, error |-> "Missing required fields"]
                /\ UNCHANGED mapFile
           ELSE IF existsByAppNumber(mapFile, applicationNumber)
           THEN reply' = req @@ [code |-> 400, error |-> "application number exists"]
                /\ UNCHANGED mapFile
           ELSE IF existsByLawmaticsID(mapFile, lawmaticsID)
           THEN reply' = req @@ [code |-> 400, error |-> "Lawmatics ID exists"]
                /\ UNCHANGED mapFile
           ELSE reply' = req @@ [code |-> 200, error |-> "none"]
                /\ writeMapFile(Append(mapFile, newMatter))
        /\ UNCHANGED regFrame

\* PUT /api/matters/:lawmaticsID
PutMatter ==
  \E lawmaticsID \in MatterIds \cup {UnknownId}, status \in Statuses :
    LET req == [op |-> "PUT", applicationNumber |-> "", lawmaticsID |-> lawmaticsID]
    IN  /\ IF existsByLawmaticsID(mapFile, lawmaticsID)
           THEN reply' = req @@ [code |-> 200, error |-> "none"]
                /\ writeMapFile(updateMatterStatus(mapFile, lawmaticsID, status))
           ELSE reply' = req @@ [code |-> 404, error |-> "Matter not found"]
                /\ UNCHANGED mapFile
        /\ UNCHANGED regFrame

\* DELETE /api/matters/:lawmaticsID
DeleteMatter ==
  \E lawmaticsID \in MatterIds \cup {UnknownId} :
    LET req == [op |-> "DELETE", applicationNumber |-> "", lawmaticsID |-> lawmaticsID]
        filteredData == SelectSeq(mapFile, LAMBDA item : item.lawmaticsID # lawmaticsID)
    IN  /\ IF Len(filteredData) = Len(mapFile)
           THEN reply' = req @@ [code |-> 404, error |-> "Matter not found"]
                /\ UNCHANGED mapFile
           ELSE reply' = req @@ [code |-> 200, error |-> "none"]
                /\ writeMapFile(filteredData)
        /\ UNCHANGED regFrame

\* AutomationController.updateMatterStatus called by the controller.
ControllerStatusWrite ==
  \E lawmaticsId \in MatterIds \cup {UnknownId}, status \in Statuses :
    /\ mapFile' = updateMatterStatus(mapFile, lawmaticsId, status)
    /\ reply' = [op |-> "updateMatterStatus", applicationNumber |-> "",
                 lawmaticsID |-> lawmaticsId,
                 code |-> IF existsByLawmaticsID(mapFile, lawmaticsId) THEN 200 ELSE 404,
                 error |-> "none"]
    /\ UNCHANGED regFrame

NextRegistry == PostMatter \/ PutMatter \/ DeleteMatter \/ ControllerStatusWrite

SpecRegistry == InitRegistry /\ [][NextRegistry]_vars

\* C19: the registry never holds two matters with the same application number
\* nor two with the same CRM identifier; a registration that carries an
\* application number or an identifier of the registry is answered with an
\* error and leaves the registry as it was.
C19_RegistryKeysUnique ==
  /\ [](\A j, k \in DOMAIN mapFile :
          j # k => /\ mapFile[j].applicationNumber # mapFile[k].applicationNumber
                   /\ mapFile[j].lawmaticsID # mapFile[k].lawmaticsID)
  /\ [][\A applicationNumber \in PostApps, lawmaticsID \in PostIds :
          (/\ reply'.op = "POST"
           /\ reply'.applicationNumber = applicationNumber
           /\ reply'.lawmaticsID = lawmaticsID
           /\ \/ existsByAppNumber(mapFile, applicationNumber)
              \/ existsByLawmaticsID(mapFile, lawmaticsID)
           /\ reply' # reply)
            => reply'.code = 400 /\ mapFile' = mapFile]_vars

\* A registration with the identifier of a registered matter has been
\* rejected; the registry holds the one matter, with a status written after
\* its registration.
C19_Witness ==
  /\ reply.op = "POST"
  /\ reply.code = 400
  /\ reply.error = "Lawmatics ID exists"
  /\ Len(mapFile) = 1
  /\ \E k \in DOMAIN mapFile : mapFile[k].status = "Automation Completed"
(***************************************************************************)
(* The display status of the matters: the server with the writes of        *)
(* updateMatterStatus that its invocations make, one invocation at a time. *)
(***************************************************************************)
statusFrame == <<doc, settled, reply, statusFile, crashed, API_KEY, timers, otpStorage>>

\* The status of the matter with the identifier, as map.json holds it.
StatusOf(lawmaticsId) ==
  LET k == CHOOSE j \in DOMAIN mapFile : mapFile[j].lawmaticsID = lawmaticsId
  IN  mapFile[k].status

\* result.processed ? 'Automation Completed' : 'No Updates Found'
finalStatus(ret) == IF ret = "processed" THEN "Automation Completed" ELSE "No Updates Found"

\* The terminal status of an outcome of processMatter.
TerminalStatus(ret) == IF ret = "threw" THEN "Failed" ELSE finalStatus(ret)

InitStatus ==
  /\ ServerStart
  /\ doc = [pc |-> "off"]
  /\ settled = "no"
  /\ statusFile = NoStatusFile
  /\ crashed = {}
  /\ API_KEY = Undefined
  /\ timers = 0
  /\ otpStorage = NoOtp
  /\ reply = [op |-> "none"]
  /\ mapFile = ShippedMap

\* processSingleMatter writes 'Processing...' once the guard has let it in
\* ('Failed - Not Found' for an unknown identifier finds no matter to write to).
StatusOnEntry(c, id) ==
  /\ mapFile' = IF Guard(id) THEN mapFile
                ELSE updateMatterStatus(mapFile, id, "Processing...")
  /\ UNCHANGED statusFrame

RECURSIVE MarkProcessing(_, _, _)
MarkProcessing(map, matters, k) ==
  IF k > Len(matters) THEN map
  ELSE MarkProcessing(updateMatterStatus(map, matters[k].lawmaticsID, "Processing..."),
                      matters, k + 1)

\* processMultipleMatters writes 'Processing...' for every targeted matter
\* before its loop; the other invocations write nothing when the state is loaded.
StatusOnLoad(c) ==
  /\ mapFile' = IF call[c].kind = "multi" THEN MarkProcessing(mapFile, call[c].matters, 1)
                ELSE mapFile
  /\ UNCHANGED statusFrame

StatusOnReturn_silent(c) == UNCHANGED <<mapFile, statusFrame>>

\* processMatter has ended in this step or not: processMultipleMatters writes the
\* final status or 'Failed' for the matter, processSingleMatter writes 'Failed'
\* when it raised, a sweep (processAllMatters of Googlecron.js) writes nothing.
StatusOnReturn(c) ==
  /\ mapFile' =
       IF call[c].kind = "multi" /\ call'[c].pc = "delay"
       THEN updateMatterStatus(mapFile, CurrentMatter(call[c]).lawmaticsID,
                               TerminalStatus(call'[c].ret))
       ELSE IF call[c].kind = "single" /\ call'[c].kind = "idle"
       THEN updateMatterStatus(mapFile, call[c].target, "Failed")
       ELSE mapFile
  /\ UNCHANGED statusFrame

\* processSingleMatter writes the final status after the save.
StatusOnSave(c) ==
  /\ mapFile' = IF call[c].kind = "single"
                THEN updateMatterStatus(mapFile, call[c].target, finalStatus(call[c].ret))
                ELSE mapFile
  /\ UNCHANGED statusFrame

NextStatus ==
  \/ startScheduledAutomation /\ UNCHANGED extVars
  \/ stopScheduledAutomation /\ UNCHANGED extVars
  \/ \E c \in {"c1"} :
       \/ CronTick(c) /\ UNCHANGED extVars
       \/ runAutomationOnce(c) /\ UNCHANGED extVars
       \/ runJob(c) /\ UNCHANGED extVars
       \/ \E id \in MatterIds \cup {UnknownId} :
            processSingleMatter(c, id) /\ StatusOnEntry(c, id)
       \/ \E ids \in SUBSET (MatterIds \cup {UnknownId}) :
            processMultipleMatters(c, ids) /\ UNCHANGED extVars
       \/ CtlLoad(c) /\ StatusOnLoad(c)
       \/ CtlFetch(c) /\ StatusOnReturn(c)
       \/ CtlUpload(c) /\ UNCHANGED extVars
       \/ CtlEmail(c) /\ UNCHANGED extVars
       \/ CtlCrm(c) /\ UNCHANGED extVars
       \/ CtlProspect(c) /\ StatusOnReturn(c)
       \/ CtlForm(c) /\ StatusOnReturn(c)
       \/ CtlDelay(c) /\ UNCHANGED extVars
       \/ CtlSave(c) /\ StatusOnSave(c)
       \/ CtlConfirm(c) /\ UNCHANGED extVars

SpecStatus == InitStatus /\ [][NextStatus]_vars

\* C20: when processMatter has ended for a matter of a sweep or of a targeted
\* batch, the status of the matter in the registry is the terminal value of
\* that outcome: 'Automation Completed', 'No Updates Found' or 'Failed'.
C20_StatusReflectsOutcome ==
  \A c \in Callers :
    (call[c].pc = "delay" /\ call[c].ret # "none")
      => StatusOf(CurrentMatter(call[c]).lawmaticsID) = TerminalStatus(call[c].ret)
(***************************************************************************)
(* Sweep after sweep over registries whose answers do not change: the      *)
(* monitor of lib/, or the server running processAllMatters of             *)
(* Googlecron.js from one invocation at a time.                            *)
(***************************************************************************)
resweepFrame == <<doc, mapFile, reply, statusFile, crashed, API_KEY, timers, otpStorage>>

\* What the registries list, the same at every fetch of the run.
InitResweep ==
  /\ doc = [pc |-> "off"]
  /\ mapFile = <<>>
  /\ reply = [op |-> "none"]
  /\ settled = "no"
  /\ statusFile = NoStatusFile
  /\ crashed = {}
  /\ API_KEY = Undefined
  /\ timers = 0
  /\ otpStorage = NoOtp
  /\ \/ ServerStart
     \/ /\ nvIn = [docDate |-> 0, lastProcessedDate |-> Absent, todayDate |-> DateKey(0)]
        /\ nvOut = <<>>
        /\ today \in Days
        /\ \E k \in DateKeys \cup {Absent} :
             stateFile = [a \in Apps |-> IF a = Registry[1].applicationNumber THEN k
                                         ELSE Absent]
        /\ sweep = IdleSweep
        /\ \E raw \in RawLists, other \in {<<>>, <<DocDay * TicksPerDay>>} :
             upstream = [a \in Apps |-> IF a = Registry[1].applicationNumber THEN raw
                                        ELSE other]
        /\ currentlyProcessing = {}
        /\ isRunning = FALSE
        /\ cronJob = FALSE
        /\ call = [c \in Callers |-> [IdleCall EXCEPT !.kind = "off"]]
        /\ chainRuns = [a \in Apps |-> "never"]

\* The history is left as it is.
Keep == UNCHANGED <<settled, resweepFrame>>

\* A sweep starts: it follows a saved sweep, or it does not.
Follow ==
  /\ settled' = IF settled = "no" THEN "no" ELSE "resweep"
  /\ UNCHANGED resweepFrame

\* The sweep is at its end and saveLastProcessedState has written mapping, or
\* has failed.
Saved(mapping) ==
  /\ settled' = IF settled = "no" /\ stateFile' = mapping THEN "saved" ELSE settled
  /\ UNCHANGED resweepFrame

\* The registry has answered what it lists for the application.
SameAnswerLib == sweep'.allDocs = SortDesc(upstream[SweepApp])
SameAnswerCtl(c) ==
  call'[c].kind \in Sweeps => call'[c].latestDoc = FirstDoc(upstream[CurrentApp(call[c])])

\* The clock of the server passes midnight UTC between two invocations.
MidnightServer ==
  /\ ServerUp
  /\ \A c \in Callers : call[c].kind = "idle"
  /\ today < MaxDay
  /\ today' = today + 1
  /\ UNCHANGED <<noveltyVars, stateFile, sweep, ctlVars>>

NextResweep ==
  \/ LibStart /\ Follow
  \/ LibLoad /\ Keep
  \/ LibFetch /\ SameAnswerLib /\ Keep
  \/ LibUpload /\ Keep
  \/ LibEmail /\ Keep
  \/ LibCrm /\ Keep
  \/ LibProspect /\ Keep
  \/ LibForm /\ Keep
  \/ LibDocDelay /\ Keep
  \/ LibDelay /\ Keep
  \/ LibSave /\ Saved(sweep.lps)
  \/ LibSummary /\ Keep
  \/ Midnight /\ Keep
  \/ MidnightServer /\ Keep
  \/ \E c \in {"c1"} :
       \/ runAutomationOnce(c) /\ Follow
       \/ runJob(c) /\ Follow
       \/ CtlLoad(c) /\ Keep
       \/ CtlFetch(c) /\ SameAnswerCtl(c) /\ Keep
       \/ CtlUpload(c) /\ Keep
       \/ CtlEmail(c) /\ Keep
       \/ CtlCrm(c) /\ Keep
       \/ CtlProspect(c) /\ Keep
       \/ CtlForm(c) /\ Keep
       \/ CtlDelay(c) /\ Keep
       \/ CtlSave(c) /\ Saved(call[c].lps)
       \/ CtlConfirm(c) /\ Keep

SpecResweep == InitResweep /\ [][NextResweep]_vars

\* C13: a sweep that follows a sweep which ran to its end and saved, and
\* fetches the same documents, passes no document to the pipeline, keeps its
\* copy of every entry as loaded, and its save leaves the state file as it was.
C13_ResweepIdempotent ==
  /\ [](settled = "resweep"
          => /\ sweep.passed = <<>>
             /\ sweep.pc \notin Pipeline
             /\ sweep.pc \in {"fetch", "delay", "save", "summary", "done"}
                  => sweep.lps = stateFile
             /\ \A c \in Callers :
                  /\ call[c].pc \notin Pipeline
                  /\ call[c].pc \in {"fetch", "delay", "save", "confirm"}
                       => call[c].lps = stateFile /\ call[c].processedCount = 0)
  /\ [][settled = "resweep" => stateFile' = stateFile]_vars

\* The second sweep is at its end: the first had processed a document of the
\* first application and saved, the second has looked at every matter and
\* written the state again.
C13_Witness ==
  /\ settled = "resweep"
  /\ sweep.pc = "summary"
  /\ sweep.idx = Len(Registry)
  /\ upstream[Registry[1].applicationNumber] # <<>>
  /\ stateFile[Registry[1].applicationNumber]
       = IsoDate(SortDesc(upstream[Registry[1].applicationNumber])[1])
(***************************************************************************)
(* The targeted calls alone (processSingleMatter, processMultipleMatters)  *)
(* with their status writes, two invocations at a time.                    *)
(***************************************************************************)
StatusIn(map, lawmaticsId) ==
  LET k == CHOOSE j \in DOMAIN map : map[j].lawmaticsID = lawmaticsId
  IN  map[k].status

NextTargeted ==
  \E c \in Callers :
    \/ \E id \in MatterIds \cup {UnknownId} :
         processSingleMatter(c, id) /\ StatusOnEntry(c, id)
    \/ \E ids \in SUBSET (MatterIds \cup {UnknownId}) :
         processMultipleMatters(c, ids) /\ UNCHANGED extVars
    \/ CtlLoad(c) /\ StatusOnLoad(c)
    \/ CtlFetch(c) /\ StatusOnReturn(c)
    \/ CtlUpload(c) /\ UNCHANGED extVars
    \/ CtlEmail(c) /\ UNCHANGED extVars
    \/ CtlCrm(c) /\ UNCHANGED extVars
    \/ CtlProspect(c) /\ StatusOnReturn(c)
    \/ CtlForm(c) /\ StatusOnReturn(c)
    \/ CtlDelay(c) /\ UNCHANGED extVars
    \/ CtlSave(c) /\ StatusOnSave(c)
    \/ CtlConfirm(c) /\ UNCHANGED extVars

SpecTargeted == InitStatus /\ [][NextTargeted]_vars
\* The targeted invocation c still has the matter to deal with.
Pending(c, lawmaticsId) ==
  \/ call[c].kind = "single" /\ call[c].target = lawmaticsId
  \/ /\ call[c].kind = "multi"
     /\ call[c].pc \notin {"load", "save", "confirm"}
     /\ \E k \in DOMAIN call[c].matters :
          /\ call[c].matters[k].lawmaticsID = lawmaticsId
          /\ IF call[c].pc = "delay" THEN k > call[c].idx ELSE k >= call[c].idx

FetchFailed(c) ==
  /\ call[c].pc = "fetch"
  /\ upstream[CurrentApp(call[c])] # <<>>
  /\ call'[c].ret = "no_documents"
  /\ call'[c].pc # "fetch"

\* C22: a failed request to the registry makes the outcome of that matter a
\* failure without raising: processMultipleMatters records an error result for
\* the matter, not 'No new documents', and its status becomes 'Failed', not
\* 'No Updates Found'.
C22_FetchFailureReported ==
  [][\A c \in Callers :
       (call[c].kind = "multi" /\ FetchFailed(c))
         => /\ call'[c].results[Len(call'[c].results)] = "error"
            /\ StatusIn(mapFile', CurrentMatter(call[c]).lawmaticsID) = "Failed"]_vars
(***************************************************************************)
(* The monitor of lib/ when the process running a sweep can be stopped at  *)
(* any await, over registries whose answers do not change.                 *)
(***************************************************************************)
crashFrame == <<doc, mapFile, settled, reply, statusFile, API_KEY, timers, otpStorage>>

InitCrash ==
  /\ InitResweep
  /\ sweep = IdleSweep
  /\ call = [c \in Callers |-> [IdleCall EXCEPT !.kind = "off"]]

\* The applications whose entry the sweep has advanced in its copy of the
\* state: their pipeline has run to its end and the state file has not been
\* written since.
Unsaved == {a \in Apps : sweep.lps[a] # stateFile[a]}

\* The process stops while processAllMatters is suspended before the answer of
\* saveLastProcessedState: its locals are lost, the state file is as loaded.
Crash ==
  /\ sweep.pc \notin {"idle", "load", "summary", "done"}
  /\ sweep' = IdleSweep
  /\ crashed' = crashed \cup Unsaved
  /\ UNCHANGED <<noveltyVars, ctlVars, today, stateFile, crashFrame>>

Survive == UNCHANGED <<crashed, crashFrame>>

NextCrash ==
  \/ LibStart /\ Survive
  \/ LibLoad /\ Survive
  \/ LibFetch /\ SameAnswerLib /\ Survive
  \/ LibUpload /\ Survive
  \/ LibEmail /\ Survive
  \/ LibCrm /\ Survive
  \/ LibProspect /\ Survive
  \/ LibForm /\ Survive
  \/ LibDocDelay /\ Survive
  \/ LibDelay /\ Survive
  \/ LibSave /\ Survive
  \/ LibSummary /\ Survive
  \/ Midnight /\ Survive
  \/ Crash

SpecCrash == InitCrash /\ [][NextCrash]_vars

\* C23: after a sweep was stopped before its end, no later sweep passes a
\* document of a matter through the pipeline when the pipeline of that matter
\* had run to its end before the stop.
C23_CompletedNotReprocessed ==
  (sweep.idx > 0 /\ SweepApp \in crashed) => sweep.pc \notin Pipeline
\* C24: an entry of the state is changed only by the step that ends the
\* pipeline of the last document of the batch of the latest novel date: while
\* a matter is in the pipeline its entry is the one processMatter found, the
\* step that changes it changes no entry of another matter, and a step on
\* which an exception leaves the pipeline changes neither the entries nor the
\* state file.
C24_EntryOnlyAfterChain ==
  /\ [](InPipeline => sweep.lps[SweepApp] = sweep.prior)
  /\ [](\A c \in Callers :
          call[c].pc \in Pipeline => call[c].lps[CurrentApp(call[c])] = call[c].prior)
  /\ [][(sweep.pc \in Pipeline \cup {"fetch", "docdelay", "delay"}
           /\ sweep'.lps # sweep.lps)
          => /\ sweep.pc \in {"prospect", "form"}
             /\ sweep'.pc = "delay"
             /\ sweep.i = Len(sweep.batch)
             /\ \A j \in DOMAIN sweep.batch :
                  Occurrences(sweep.passed, sweep.batch[j]) = 1
             /\ sweep'.lps[SweepApp] = DocDateStr(sweep.batch[1])
             /\ \A a \in Apps \ {SweepApp} : sweep'.lps[a] = sweep.lps[a]]_vars
  /\ [][(sweep.pc \in Pipeline /\ sweep'.pc = "done")
          => sweep'.lps = sweep.lps /\ stateFile' = stateFile]_vars
  /\ [][\A c \in Callers :
          /\ (call[c].pc \in Pipeline \cup {"fetch", "delay"}
                /\ call'[c].kind = call[c].kind /\ call'[c].lps # call[c].lps)
               => /\ call[c].pc \in {"prospect", "form"}
                  /\ call'[c].ret = "processed"
                  /\ call'[c].lps[CurrentApp(call[c])] = IsoDate(call[c].latestDoc[1])
                  /\ \A a \in Apps \ {CurrentApp(call[c])} :
                       call'[c].lps[a] = call[c].lps[a]
          /\ (call[c].pc \in Pipeline /\ call'[c].pc \notin Pipeline
                /\ call'[c].ret # "processed")
               => /\ stateFile' = stateFile
                  /\ call'[c].kind = call[c].kind => call'[c].lps = call[c].lps]_vars

\* The sweep of lib/ is at the delay after its second matter: two documents of
\* one date have gone through the pipeline, the entry of the matter is that
\* date, and the entry of the first matter is the one loaded.
C24_Witness ==
  /\ sweep.pc = "delay"
  /\ sweep.idx = 2
  /\ Len(sweep.batch) = 2
  /\ sweep.lps[SweepApp] = DocDateStr(sweep.batch[1])
  /\ sweep.lps[SweepApp] # sweep.prior
  /\ sweep.lps[Registry[1].applicationNumber] = stateFile[Registry[1].applicationNumber]
\* C25: a sweep of lib/ loads the state once, at its start, and comes to its
\* end only through the one saveLastProcessedState after the last matter and
\* the one sendSummaryEmail after it, also when a matter of the sweep failed.
C25_OneLoadOneSaveOneSummary ==
  [][/\ sweep'.pc = "fetch" /\ sweep.pc = "load" => sweep'.lps = stateFile
     /\ (sweep.pc # "load" /\ sweep.pc # "save") => stateFile' = stateFile
     /\ (sweep'.pc = "summary" /\ sweep.pc # "summary") => sweep.pc = "save"
     /\ (sweep'.pc = "save" /\ sweep.pc # "save")
          => sweep.pc = "delay" /\ sweep.idx = Len(Registry)
     /\ (sweep'.pc = "done" /\ sweep.pc # "done") => sweep.pc = "summary"]_vars
(***************************************************************************)
(* api/monitor.js: the HTTP trigger of the monitor of lib/.  reply holds   *)
(* the last request handled (code 0 while its runJob is awaited) and, in   *)
(* jobKey, the x-api-key header of the request whose job is running.       *)
(***************************************************************************)
Methods == {"GET", "POST", "OPTIONS"}
ApiKeys == {Undefined, "k1", "k2"}
EnvKeys == {Undefined, "", "k1"}

monitorFrame == <<doc, mapFile, settled, statusFile, crashed, API_KEY, timers, otpStorage>>

InitMonitor ==
  /\ nvIn = [docDate |-> 0, lastProcessedDate |-> Absent, todayDate |-> DateKey(0)]
  /\ nvOut = <<>>
  /\ today = DocDay
  /\ stateFile = [a \in Apps |-> Absent]
  /\ sweep = IdleSweep
  /\ CtlOff
  /\ doc = [pc |-> "off"]
  /\ mapFile = <<>>
  /\ settled = "no"
  /\ statusFile = NoStatusFile
  /\ crashed = {}
  /\ reply = [op |-> "none", method |-> "none", key |-> Undefined, code |-> 0,
              jobKey |-> "none"]
  /\ API_KEY \in EnvKeys
  /\ timers = 0
  /\ otpStorage = NoOtp

KeyRejected_never(apiKey) == FALSE

\* process.env.API_KEY && apiKey !== process.env.API_KEY
KeyRejected(apiKey) == API_KEY \notin Falsy /\ apiKey # API_KEY

\* handler(req, res) up to its answer, or to its await of runJob.
handler(method, apiKey) ==
  LET req == [op |-> "monitor", method |-> method, key |-> apiKey]
  IN  IF method = "OPTIONS"
      THEN /\ reply' = req @@ [code |-> 200, jobKey |-> reply.jobKey]
           /\ UNCHANGED <<noveltyVars, libVars, ctlVars, monitorFrame>>
      ELSE IF method # "POST"
      THEN /\ reply' = req @@ [code |-> 405, jobKey |-> reply.jobKey]
           /\ UNCHANGED <<noveltyVars, libVars, ctlVars, monitorFrame>>
      ELSE IF KeyRejected(apiKey)
      THEN /\ reply' = req @@ [code |-> 401, jobKey |-> reply.jobKey]
           /\ UNCHANGED <<noveltyVars, libVars, ctlVars, monitorFrame>>
      ELSE /\ reply.jobKey = "none"
           /\ reply' = req @@ [code |-> 0, jobKey |-> apiKey]
           /\ LibStart
           /\ UNCHANGED monitorFrame

\* runJob has returned the result of processAllMatters, which catches every
\* exception: res.status(200).json({ success: true, data: result }).
handlerAnswer ==
  /\ sweep.pc = "done"
  /\ reply.jobKey # "none"
  /\ reply' = [op |-> "monitor", method |-> "POST", key |-> reply.jobKey, code |-> 200,
               jobKey |-> "none"]
  /\ UNCHANGED <<noveltyVars, libVars, ctlVars, monitorFrame>>

Waiting == UNCHANGED <<reply, monitorFrame>>

NextMonitor ==
  \/ \E method \in Methods, apiKey \in ApiKeys : handler(method, apiKey)
  \/ handlerAnswer
  \/ LibLoad /\ Waiting
  \/ LibFetch /\ Waiting
  \/ LibUpload /\ Waiting
  \/ LibEmail /\ Waiting
  \/ LibCrm /\ Waiting
  \/ LibProspect /\ Waiting
  \/ LibForm /\ Waiting
  \/ LibDocDelay /\ Waiting
  \/ LibDelay /\ Waiting
  \/ LibSave /\ Waiting
  \/ LibSummary /\ Waiting

SpecMonitor == InitMonitor /\ [][NextMonitor]_vars

\* The request is one the job is to be started for.
Authorized(r) == r.method = "POST" /\ (API_KEY \in Falsy \/ r.key = API_KEY)

\* C26: /api/monitor starts a sweep only on a POST request that, when API_KEY
\* is set, carries it in x-api-key; every other request is answered at once,
\* OPTIONS with 200, another method with 405, a POST with a wrong or missing
\* key with 401, and leaves the sweep, the state file and the job awaited as
\* they were.
C26_OnlyAuthorizedPostStarts ==
  [][/\ (sweep'.pc = "load" /\ sweep.pc # "load")
          => Authorized(reply') /\ reply'.code = 0 /\ reply'.jobKey = reply'.key
     /\ (reply' # reply /\ ~Authorized(reply'))
          => /\ reply'.code = CASE reply'.method = "OPTIONS" -> 200
                                [] reply'.method = "POST" -> 401
                                [] OTHER -> 405
             /\ reply'.jobKey = reply.jobKey
             /\ UNCHANGED <<sweep, stateFile, today>>]_vars

\* A POST without the configured key has been answered 401 while the job of an
\* earlier POST that carried the key is in the pipeline.
C26_Witness ==
  /\ API_KEY = "k1"
  /\ reply.method = "POST"
  /\ reply.key # "k1"
  /\ reply.code = 401
  /\ reply.jobKey = "k1"
  /\ sweep.pc \in Pipeline
(***************************************************************************)
(* The controller with its status file, when the process can be stopped    *)
(* and the controller constructed again; one invocation at a time.         *)
(***************************************************************************)
restartFrame == <<doc, mapFile, settled, reply, crashed, API_KEY, timers, otpStorage>>

InitRestart == ServerStart /\ ExtOff

saveStatus_noInFlight ==
  \/ statusFile' = [exists |-> TRUE, enabled |-> cronJob', running |-> isRunning',
                    currentlyProcessing |-> {}]
  \/ UNCHANGED statusFile

\* saveStatus: the flags of the controller written to automation-status.json
\* after every change of them and every 30 seconds, or the error logged.
saveStatus ==
  \/ statusFile' = [exists |-> TRUE, enabled |-> cronJob', running |-> isRunning',
                    currentlyProcessing |-> currentlyProcessing']
  \/ UNCHANGED statusFile

Saving == saveStatus /\ UNCHANGED restartFrame

\* loadStatus in the constructor: the flags as the file holds them, the
\* scheduler started again when it was enabled; the defaults when the file is
\* missing or cannot be parsed.
loadStatus(status) ==
  \/ /\ status.exists
     /\ isRunning' = status.running
     /\ currentlyProcessing' = status.currentlyProcessing
     /\ cronJob' = status.enabled
     /\ IF status.enabled THEN saveStatus ELSE UNCHANGED statusFile
  \/ /\ isRunning' = FALSE
     /\ currentlyProcessing' = {}
     /\ cronJob' = FALSE
     /\ UNCHANGED statusFile

\* The process stops, whatever it was doing, and the server starts again: the
\* invocations are gone, the controller is constructed from the status file.
Restart ==
  /\ ServerUp
  /\ call' = [c \in Callers |-> IdleCall]
  /\ loadStatus(statusFile)
  /\ UNCHANGED <<ctlFrame, stateFile, upstream, chainRuns, restartFrame>>

Serve ==
  \/ startScheduledAutomation /\ Saving
  \/ stopScheduledAutomation /\ Saving
  \/ \E c \in {"c1"} :
       \/ CronTick(c) /\ Saving
       \/ runAutomationOnce(c) /\ Saving
       \/ \E id \in MatterIds : processSingleMatter(c, id) /\ Saving
       \/ \E ids \in SUBSET MatterIds : processMultipleMatters(c, ids) /\ Saving
       \/ CtlLoad(c) /\ Saving
       \/ CtlFetch(c) /\ Saving
       \/ CtlUpload(c) /\ Saving
       \/ CtlEmail(c) /\ Saving
       \/ CtlCrm(c) /\ Saving
       \/ CtlProspect(c) /\ Saving
       \/ CtlForm(c) /\ Saving
       \/ CtlDelay(c) /\ Saving
       \/ CtlSave(c) /\ Saving
       \/ CtlConfirm(c) /\ Saving

NextRestart == Serve \/ Restart

SpecRestart == InitRestart /\ [][NextRestart]_vars

\* An invocation that is suspended at an await is resumed when the await is
\* answered; requests, cron ticks and stops of the process need not come.
Resumed == Serve /\ \E c \in Callers : call[c].kind # "idle" /\ call'[c] # call[c]

SpecRestartFair == SpecRestart /\ WF_vars(Resumed)

\* No invocation is running in the server.
NoAttempt == \A c \in Callers : call[c].kind = "idle"

\* C27: when no invocation is running and a matter is recorded as in flight,
\* as after a stop of the process during its attempt and a new start, the
\* record is eventually removed, so that processSingleMatter for the matter
\* is accepted again.
C27_RestartFreesMatter ==
  \A m \in MatterIds :
    (NoAttempt /\ m \in currentlyProcessing) ~> (m \notin currentlyProcessing)
\* C28: when isRunning is true and no sweep is running, as after a stop of the
\* process during a sweep and a new start from the saved running flag,
\* isRunning eventually becomes false, so that cron ticks and runAutomationOnce
\* can start a sweep again.
C28_RestartClearsRunning ==
  (isRunning /\ \A c \in Callers : call[c].kind \notin {"tick", "once"}) ~> ~isRunning
\* C29: a failure of the form submission, a failed launch of the browser
\* included, does not raise out of submitFormWithPuppeteer: every step that
\* leaves the form step goes on in processMatter, which returns processed
\* with the entry of the matter advanced to the date of the document.
C29_FormFailureContained ==
  /\ [][(sweep.pc = "form" /\ sweep' # sweep)
          => /\ sweep'.pc \in {"docdelay", "delay"}
             /\ sweep'.pc = "delay"
                  => /\ sweep'.ret.processed
                     /\ sweep'.lps[SweepApp] = DocDateStr(sweep.batch[1])]_vars
  /\ [][\A c \in Callers :
          (call[c].pc = "form" /\ call'[c] # call[c])
            => /\ call'[c].ret = "processed"
               /\ call'[c].lps[CurrentApp(call[c])] = IsoDate(call[c].latestDoc[1])]_vars
\* C30: when the sweep started by runAutomationOnce has run to its end (the
\* state saved and, with nothing processed, the confirmation sent),
\* runAutomationOnce returns success, and it returns a failure only when a
\* sweep was already running or the sweep raised.
C30_RunOnceReportsCompletion ==
  [][\A c \in Callers :
       (call[c].kind = "once" /\ call[c].pc \in {"save", "confirm"}
          /\ call'[c].kind = "idle")
         => call'[c].result = "success"]_vars
\* The invocations that run a sweep started by the controller.
ControllerSweeps == {c \in Callers : call[c].kind \in {"tick", "once"}}

schedulerFrame == <<doc, mapFile, settled, statusFile, crashed, API_KEY, otpStorage>>

InitScheduler == ServerStart /\ ExtOff

HasJob_never == FALSE

\* if (this.cronJob)
HasJob == cronJob

Answer(op, success, message, enabled) ==
  [op |-> op, success |-> success, message |-> message, enabled |-> enabled]

\* startScheduledAutomation: rejected while a job exists; cron.schedule creates
\* the task and the job is kept, or it raises and the error is answered.
PostStart ==
  /\ ServerUp
  /\ IF HasJob
     THEN /\ reply' = Answer("start", FALSE, "Automation is already running", cronJob)
          /\ UNCHANGED <<cronJob, timers>>
     ELSE \/ /\ cronJob' = TRUE
             /\ timers' = timers + 1
             /\ reply' = Answer("start", TRUE, "Automation started", TRUE)
          \/ /\ reply' = Answer("start", FALSE, "error.message", cronJob)
             /\ UNCHANGED <<cronJob, timers>>
  /\ UNCHANGED <<ctlFrame, stateFile, currentlyProcessing, isRunning, call, chainRuns,
                 schedulerFrame>>

\* stopScheduledAutomation: the task stopped and the job forgotten, or rejected.
PostStop ==
  /\ ServerUp
  /\ IF HasJob
     THEN /\ cronJob' = FALSE
          /\ timers' = timers - 1
          /\ reply' = Answer("stop", TRUE, "Automation stopped", FALSE)
     ELSE /\ reply' = Answer("stop", FALSE, "Automation was not running", cronJob)
          /\ UNCHANGED <<cronJob, timers>>
  /\ UNCHANGED <<ctlFrame, stateFile, currentlyProcessing, isRunning, call, chainRuns,
                 schedulerFrame>>

\* getStatus: enabled: !!this.cronJob
GetStatus ==
  /\ ServerUp
  /\ reply' = Answer("status", TRUE, "none", cronJob)
  /\ UNCHANGED <<ctlFrame, stateFile, ctlVars, timers, schedulerFrame>>

NextScheduler ==
  \/ PostStart
  \/ PostStop
  \/ GetStatus
  \/ \E c \in {"c1"} :
       \/ CronTick(c) /\ UNCHANGED extVars
       \/ runAutomationOnce(c) /\ UNCHANGED extVars
       \/ \E id \in MatterIds : processSingleMatter(c, id) /\ UNCHANGED extVars
       \/ CtlLoad(c) /\ UNCHANGED extVars
       \/ CtlFetch(c) /\ UNCHANGED extVars
       \/ CtlUpload(c) /\ UNCHANGED extVars
       \/ CtlEmail(c) /\ UNCHANGED extVars
       \/ CtlCrm(c) /\ UNCHANGED extVars
       \/ CtlProspect(c) /\ UNCHANGED extVars
       \/ CtlForm(c) /\ UNCHANGED extVars
       \/ CtlDelay(c) /\ UNCHANGED extVars
       \/ CtlSave(c) /\ UNCHANGED extVars
       \/ CtlConfirm(c) /\ UNCHANGED extVars

SpecScheduler == InitScheduler /\ [][NextScheduler]_vars

\* C32: the scheduler has a job or has none, and one cron task is scheduled
\* exactly when it has a job; startScheduledAutomation succeeds only without
\* a job and is otherwise answered 'Automation is already running' with the
\* job left in place; stopScheduledAutomation succeeds only with a job and is
\* otherwise answered 'Automation was not running'; getStatus answers enabled
\* exactly when a job exists; and none of them changes an invocation in
\* progress, isRunning or the in-flight set.
C32_SchedulerTwoStates ==
  /\ [](timers = IF cronJob THEN 1 ELSE 0)
  /\ [][PostStart
          => /\ IF cronJob
                THEN /\ reply' = Answer("start", FALSE, "Automation is already running",
                                        TRUE)
                     /\ cronJob' /\ timers' = timers
                ELSE reply'.success <=> cronJob'
             /\ UNCHANGED <<call, isRunning, currentlyProcessing, stateFile>>]_vars
  /\ [][PostStop
          => /\ IF cronJob
                THEN reply'.success /\ ~cronJob'
                ELSE /\ reply' = Answer("stop", FALSE, "Automation was not running", FALSE)
                     /\ ~cronJob' /\ timers' = timers
             /\ UNCHANGED <<call, isRunning, currentlyProcessing, stateFile>>]_vars
  /\ [][GetStatus
          => /\ reply'.enabled <=> cronJob
             /\ UNCHANGED <<cronJob, call, isRunning, currentlyProcessing>>]_vars

\* The scheduler was stopped while the sweep of a cron tick is in the
\* pipeline, and a second stop has been rejected: the sweep goes on.
C32_Witness ==
  /\ reply = Answer("stop", FALSE, "Automation was not running", FALSE)
  /\ ~cronJob
  /\ timers = 0
  /\ isRunning
  /\ \E c \in Callers : call[c].kind = "tick" /\ call[c].pc \in Pipeline
\* C33: a call that finds a targeted matter in currentlyProcessing leaves the
\* matter as it is: processSingleMatter rejected for it, and
\* processMultipleMatters for every matter in flight when it reaches its loop,
\* change neither the status of the matter in the registry, nor the state
\* file, nor the in-flight set by that matter.
C33_RejectedAttemptTouchesNothing ==
  [][\A c \in Callers :
       /\ \A id \in MatterIds :
            (processSingleMatter(c, id) /\ id \in currentlyProcessing)
              => /\ StatusIn(mapFile', id) = StatusIn(mapFile, id)
                 /\ UNCHANGED <<stateFile, currentlyProcessing>>
       /\ (call[c].kind = "multi" /\ call[c].pc = "load" /\ call'[c] # call[c])
            => \A k \in DOMAIN call[c].matters :
                 LET id == call[c].matters[k].lawmaticsID
                 IN  id \in currentlyProcessing
                       => /\ StatusIn(mapFile', id) = StatusIn(mapFile, id)
                          /\ stateFile' = stateFile
                          /\ id \in currentlyProcessing']_vars
\* C34: a sweep processes the matters of the registry one after the other, in
\* the order of the registry: processMatter starts for the first matter after
\* the load and for matter k + 1 only at the end of the delay that follows the
\* return of processMatter for matter k, so no sweep is at two matters at once.
C34_MattersSequential ==
  /\ [][/\ (sweep'.pc = "fetch" /\ sweep.pc # "fetch")
             => \/ sweep.pc = "load" /\ sweep'.idx = 1
                \/ /\ sweep.pc = "delay"
                   /\ sweep.ret # NoRet
                   /\ sweep'.idx = sweep.idx + 1
                   /\ sweep'.passed = <<>>
        /\ (sweep.pc \in Pipeline \cup {"fetch", "docdelay"}
              /\ sweep'.pc \in Pipeline \cup {"fetch", "docdelay", "delay"})
             => sweep'.idx = sweep.idx]_vars
  /\ [][\A c \in Callers :
          (call[c].kind \in Sweeps /\ call'[c].kind = call[c].kind)
            => /\ (call'[c].pc = "fetch" /\ call[c].pc # "fetch")
                    => \/ call[c].pc = "load" /\ call'[c].idx = 1
                       \/ /\ call[c].pc = "delay"
                          /\ call[c].ret # "none"
                          /\ call'[c].idx = call[c].idx + 1
               /\ (call[c].pc \in Pipeline \cup {"fetch"})
                    => call'[c].idx = call[c].idx]_vars

\* The sweep of lib/ is in the pipeline of the second matter of the registry
\* after the pipeline of the first has run to its end.
C34_Witness ==
  /\ sweep.idx = 2
  /\ sweep.pc \in Pipeline
  /\ sweep.updated = 1
\* C35: processSingleMatter for an identifier that no matter of the registry
\* carries answers 'Matter not found' in one step that starts no fetch and no
\* side effect, changes neither the registry nor the state file and leaves
\* the identifier out of the in-flight set; processMultipleMatters with no
\* registered identifier among its arguments answers 'No valid matters found'
\* and changes nothing.
C35_UnknownMatterRejected ==
  [][\A c \in Callers :
       /\ processSingleMatter(c, UnknownId)
            => /\ call'[c] = Finished("Matter not found")
               /\ UnknownId \notin currentlyProcessing'
               /\ \A d \in Callers \ {c} : call'[d] = call[d]
               /\ UNCHANGED <<mapFile, stateFile, chainRuns, currentlyProcessing,
                              isRunning>>
       /\ \A ids \in SUBSET {UnknownId} :
            processMultipleMatters(c, ids)
              => /\ call'[c] = Finished("No valid matters found")
                 /\ \A d \in Callers \ {c} : call'[d] = call[d]
                 /\ UNCHANGED <<mapFile, stateFile, chainRuns, currentlyProcessing,
                                isRunning>>]_vars

\* Both calls have been answered for the unknown identifier while nothing was
\* in flight; the registry is as shipped.
C35_Witness ==
  /\ call["c1"] = Finished("Matter not found")
  /\ call["c2"] = Finished("No valid matters found")
  /\ currentlyProcessing = {}
  /\ mapFile = ShippedMap
(***************************************************************************)
(* The OTP endpoints of src/api/health.js: POST /api/send-otp and          *)
(* POST /api/verify-otp over the in-memory otpStorage.  One SendGrid       *)
(* request is in flight at most; verifications arrive at any time.         *)
(***************************************************************************)
\* generateOTP: a six-digit string.
Otps == {"100000", "543210", "999999"}

\* What the otp field of a request body can hold; Undefined is a body without it.
OtpInputs == Otps \cup {Undefined}

otpFrame == <<doc, mapFile, settled, statusFile, crashed, API_KEY, timers>>

\* function isValidEmail(email)
isValidEmail(email) == email = "automations@inspiredideasolutions.com"

OtpAnswer(op, email, otp, code, mail) ==
  [op |-> op, email |-> email, otp |-> otp, code |-> code, mail |-> mail]

InitOtp ==
  /\ nvIn = [docDate |-> 0, lastProcessedDate |-> Absent, todayDate |-> DateKey(0)]
  /\ nvOut = <<>>
  /\ today = DocDay
  /\ stateFile = [a \in Apps |-> Absent]
  /\ sweep = IdleSweep
  /\ CtlOff
  /\ doc = [pc |-> "off"]
  /\ mapFile = <<>>
  /\ settled = "no"
  /\ statusFile = NoStatusFile
  /\ crashed = {}
  /\ API_KEY = Undefined
  /\ timers = 0
  /\ otpStorage = NoOtp
  /\ reply = OtpAnswer("none", Undefined, Undefined, 0, "none")

\* POST /api/send-otp up to await sgMail.send(msg): 403 for any other address;
\* otherwise the new OTP is stored before the mail is handed to SendGrid.
SendOtp(email) ==
  /\ reply.mail = "none"
  /\ IF ~isValidEmail(email)
     THEN /\ reply' = OtpAnswer("send-otp", email, Undefined, 403, "none")
          /\ UNCHANGED otpStorage
     ELSE \E otp \in Otps :
            /\ otpStorage' = [otpStorage EXCEPT ![email] = otp]
            /\ reply' = [reply EXCEPT !.mail = "sending"]
  /\ UNCHANGED <<noveltyVars, libVars, ctlVars, otpFrame>>

\* sgMail.send settles: 'OTP sent successfully', or 500 'Failed to send OTP';
\* the stored OTP stays either way.
SendOtpAnswer ==
  /\ reply.mail = "sending"
  /\ \E code \in {200, 500} :
       reply' = OtpAnswer("send-otp", "automations@inspiredideasolutions.com",
                          Undefined, code, "none")
  /\ UNCHANGED <<noveltyVars, libVars, ctlVars, otpFrame, otpStorage>>

\* POST /api/verify-otp: if (otpStorage[email] === otp) { delete ...; 200 } else 401
VerifyOtp(email, otp) ==
  /\ IF ~isValidEmail(email)
     THEN /\ reply' = OtpAnswer("verify-otp", email, otp, 403, reply.mail)
          /\ UNCHANGED otpStorage
     ELSE IF otpStorage[email] = otp
          THEN /\ otpStorage' = [otpStorage EXCEPT ![email] = Undefined]
               /\ reply' = OtpAnswer("verify-otp", email, otp, 200, reply.mail)
          ELSE /\ reply' = OtpAnswer("verify-otp", email, otp, 401, reply.mail)
               /\ UNCHANGED otpStorage
  /\ UNCHANGED <<noveltyVars, libVars, ctlVars, otpFrame>>

NextOtp ==
  \/ \E email \in Emails : SendOtp(email)
  \/ SendOtpAnswer
  \/ \E email \in Emails, otp \in OtpInputs : VerifyOtp(email, otp)

SpecOtp == InitOtp /\ [][NextOtp]_vars

\* C36: a verification is answered with success only for the allowed address
\* and only when the submitted OTP is the one stored for it by an earlier
\* send-otp and not yet consumed; the success removes the stored OTP; and
\* while no OTP is stored for the address every verification fails, whatever
\* the body holds or leaves out.
C36_VerifyNeedsOutstandingOtp ==
  [][\A email \in Emails, otp \in OtpInputs :
       VerifyOtp(email, otp)
         => /\ reply'.code = 200
                 => /\ isValidEmail(email)
                    /\ otpStorage[email] \in Otps
                    /\ otpStorage[email] = otp
                    /\ otpStorage'[email] = Undefined
            /\ otpStorage[email] = Undefined => reply'.code # 200]_vars
\* The status object saveStatus builds from the controller as it is.
StatusSnapshot ==
  [exists |-> TRUE, enabled |-> cronJob, running |-> isRunning,
   currentlyProcessing |-> currentlyProcessing]

\* A step of the serving controller that adds to or removes from the
\* in-flight set, or sets or resets isRunning.
GuardTransition ==
  /\ Serve
  /\ currentlyProcessing' # currentlyProcessing \/ isRunning' # isRunning

\* C37 as stated: right after every add to and remove from the in-flight set
\* and every change of isRunning, automation-status.json holds exactly the
\* in-flight set, the running flag and the enabled flag of the controller.
C37_SnapshotTracksGuard ==
  [][GuardTransition => statusFile' = StatusSnapshot']_vars

\* C37: right after every add to and remove from the in-flight set and every
\* change of isRunning, saveStatus has run: automation-status.json holds
\* exactly the in-flight set, the running flag and the enabled flag of the
\* controller when its write succeeded, and is what it was before when the
\* write raised and the error was logged.
C37_SnapshotTracksGuardOrKept ==
  [][GuardTransition
       => \/ statusFile' = StatusSnapshot'
          \/ statusFile' = statusFile]_vars

\* The file names the matter in flight and the running sweep's flag, as the
\* controller holds them.
C37_Witness ==
  /\ statusFile = StatusSnapshot
  /\ currentlyProcessing # {}
  /\ \E c \in Callers : call[c].kind = "single" /\ call[c].pc \in Pipeline
====
